---- MODULE Spec2Model ----
(***************************************************************************)
(* OERC-S kernel: canonical encoding, object ids, signatures, the sigset   *)
(* verifier and the Intent / Frame / Collapse validators, with the CLI     *)
(* commands that emit and verify objects.                                  *)
(*                                                                         *)
(* JSON values are records of one shape, so that any two of them can be    *)
(* compared: t is the JavaScript type, s the text of a string, n the value *)
(* of a number (plus hi times 2^53), kv the entries of an object in        *)
(* insertion order (k the key, v the value) or the elements of an array    *)
(* (k = "").                                                               *)
(***************************************************************************)
EXTENDS Integers, Sequences, FiniteSets, TLC

VARIABLES pc, call, result, out, seen

vars == <<pc, call, result, out, seen>>

\* ------------------------------------------------------------------ bounds

\* longest signatures list of a sigset that is enumerated
MaxSigs == 2

\* most frame files the collapse command is given
MaxFrames == 3

\* most calls a caller makes one after another in a session
MaxCalls == 2

\* ------------------------------------------------------------- JSON values

Undef == [t |-> "undefined", s |-> "", n |-> 0, hi |-> 0, kv |-> <<>>]
JNull == [t |-> "null", s |-> "", n |-> 0, hi |-> 0, kv |-> <<>>]
JStr(s) == [t |-> "string", s |-> s, n |-> 0, hi |-> 0, kv |-> <<>>]
JNum(n) == [t |-> "number", s |-> "", n |-> n, hi |-> 0, kv |-> <<>>]
JObj(entries) == [t |-> "object", s |-> "", n |-> 0, hi |-> 0, kv |-> entries]
JArr(elems) ==
  [t |-> "array", s |-> "", n |-> 0, hi |-> 0,
   kv |-> [i \in 1..Len(elems) |-> [k |-> "", v |-> elems[i]]]]

JBool(b) == [t |-> "boolean", s |-> "", n |-> IF b THEN 1 ELSE 0, hi |-> 0, kv |-> <<>>]

\* A number at or beyond 2^53, where a double no longer holds every integer:
\* its value is hi * 2^53 + n.
JBig(hi, n) == [t |-> "number", s |-> "", n |-> n, hi |-> hi, kv |-> <<>>]

\* one property of an object literal
P(k, v) == [k |-> k, v |-> v]

HasKey(o, k) == o.t = "object" /\ \E i \in 1..Len(o.kv) : o.kv[i].k = k

\* o[k], undefined when o has no such property
Get(o, k) ==
  IF HasKey(o, k)
  THEN o.kv[CHOOSE i \in 1..Len(o.kv) : o.kv[i].k = k].v
  ELSE Undef

\* o with property k assigned: replaced in place, or appended when new
Put(o, k, v) ==
  IF HasKey(o, k)
  THEN JObj([i \in 1..Len(o.kv) |-> IF o.kv[i].k = k THEN P(k, v) ELSE o.kv[i]])
  ELSE JObj(Append(o.kv, P(k, v)))

\* the elements of an array value
Elems(a) == [i \in 1..Len(a.kv) |-> a.kv[i].v]

\* JavaScript's !v
Falsy(v) ==
  \/ v.t \in {"undefined", "null"}
  \/ v.t = "string" /\ v.s = ""
  \/ v.t = "number" /\ v.n = 0 /\ v.hi = 0
  \/ v.t = "boolean" /\ v.n = 0

\* ---------------------------------------------------------------- strings

\* the decimal text of an integer, as JSON.stringify and template strings give it
RECURSIVE ToStr(_)
ToStr(n) ==
  LET Digits == <<"0", "1", "2", "3", "4", "5", "6", "7", "8", "9">> IN
  IF n < 0 THEN "-" \o ToStr(-n)
  ELSE IF n < 10 THEN Digits[n + 1]
  ELSE ToStr(n \div 10) \o Digits[(n % 10) + 1]

\* The decimal text of hi * 2^53 for hi = 1..5, split before its last three
\* digits, and the text of the number hi * 2^53 + n (n below 24).
Pow53 ==
  <<[head |-> "9007199254740", tail |-> 992],
    [head |-> "18014398509481", tail |-> 984],
    [head |-> "27021597764222", tail |-> 976],
    [head |-> "36028797018963", tail |-> 968],
    [head |-> "45035996273704", tail |-> 960]>>

NumText(v) ==
  IF v.hi = 0 THEN ToStr(v.n)
  ELSE Pow53[v.hi].head \o ToStr(Pow53[v.hi].tail + v.n)

RECURSIVE Join(_)
Join(ss) ==
  IF Len(ss) = 0 THEN ""
  ELSE IF Len(ss) = 1 THEN ss[1]
  ELSE ss[1] \o "," \o Join(Tail(ss))

\* faulty variant: strings are written without their quotes
QuoteBare(s) == s

Quote(s) == "\"" \o s \o "\""

\* The hex strings of the model that hold an upper-case letter, with their
\* lower-case form; every other string of the model is lower-case already.
toLowerCase(s) ==
  IF s = "K1" THEN "k1" ELSE IF s = "K2" THEN "k2" ELSE s

normalizeHex(hex) == toLowerCase(hex)

\* String.prototype.toUpperCase, letter by letter
UpperChar(c) ==
  LET LowerLetters == "abcdefghijklmnopqrstuvwxyz"
      UpperLetters == "ABCDEFGHIJKLMNOPQRSTUVWXYZ"
  IN IF \E i \in 1..Len(LowerLetters) : SubSeq(LowerLetters, i, i) = c
     THEN LET i == CHOOSE i \in 1..Len(LowerLetters) : SubSeq(LowerLetters, i, i) = c
          IN SubSeq(UpperLetters, i, i)
     ELSE c

RECURSIVE toUpperCase(_)
\* computed by halves, which keeps the recursion shallow on long strings
toUpperCase(s) ==
  IF Len(s) = 0 THEN ""
  ELSE IF Len(s) = 1 THEN UpperChar(s)
  ELSE LET half == Len(s) \div 2
       IN toUpperCase(SubSeq(s, 1, half)) \o toUpperCase(SubSeq(s, half + 1, Len(s)))

\* String.prototype.includes
includes(s, part) ==
  \E i \in 1..(Len(s) - Len(part) + 1) : SubSeq(s, i, i + Len(part) - 1) = part

RECURSIVE JoinWith(_, _)
JoinWith(ss, sep) ==
  IF Len(ss) = 0 THEN ""
  ELSE IF Len(ss) = 1 THEN ss[1]
  ELSE ss[1] \o sep \o JoinWith(Tail(ss), sep)

\* ---------------------------------------------------- canonical encoding

\* The property names of the model in the order Array.prototype.sort gives
\* them (UTF-16 code units).
KeyOrder ==
  <<"aggregated_metrics", "authorized_signers", "collapsed_at", "energy_j",
    "energy_j_partial", "executor", "expires_at", "final_status",
    "frame_count", "frame_ids", "from_pubkey", "id", "intent_id", "max_energy_j",
    "min_signers", "payload", "policy", "pubkey", "segments", "sequence",
    "sig", "signature", "suite_id", "summary", "to_pubkey", "version",
    "window_id">>

\* e inserted into the sorted list es
RECURSIVE Insert(_, _)
Insert(e, es) ==
  LET KeyRank(k) == CHOOSE i \in 1..Len(KeyOrder) : KeyOrder[i] = k IN
  IF Len(es) = 0 THEN <<e>>
  ELSE IF KeyRank(e.k) < KeyRank(es[1].k) THEN <<e>> \o es
  ELSE <<es[1]>> \o Insert(e, Tail(es))

RECURSIVE Sort(_)
Sort(es) == IF Len(es) = 0 THEN <<>> ELSE Insert(es[1], Sort(Tail(es)))

IsDefined(e) == e.v.t # "undefined"

\* faulty variant: the replacer returns objects as they are
sortedReplacerUnsorted(value) == value

sortedReplacer(value) ==
  IF value.t # "object" THEN value
  ELSE JObj(SelectSeq(Sort(value.kv), IsDefined))

\* JSON.stringify(value, sortedReplacer): the replacer is applied to every
\* value before it is written; an object's undefined properties are left
\* out, an array's undefined elements are written as null.
RECURSIVE stringify(_)
stringify(value) ==
  LET v == sortedReplacer(value) IN
  CASE v.t = "string" -> Quote(v.s)
    [] v.t = "number" -> NumText(v)
    [] v.t = "null" -> "null"
    [] v.t = "array" ->
         "[" \o Join([i \in 1..Len(v.kv) |->
                        IF v.kv[i].v.t = "undefined" THEN "null"
                        ELSE stringify(v.kv[i].v)]) \o "]"
    [] v.t = "object" ->
         LET es == SelectSeq(v.kv, IsDefined) IN
         "{" \o Join([i \in 1..Len(es) |->
                        Quote(es[i].k) \o ":" \o stringify(es[i].v)]) \o "}"
    [] OTHER -> "undefined"

toCanonical(obj) == stringify(obj)

\* BLAKE3 as a collision-free digest: the text of the digest names its input.
computeBlake3(data) == "blake3(" \o data \o ")"

computeObjectId(obj) == computeBlake3(toCanonical(obj))

canonicalEqual(a, b) == toCanonical(a) = toCanonical(b)

extractBodyForSigning(obj) == toCanonical(Get(obj, "body"))

\* ----------------------------------------------------------------- crypto

SUITE == "ed25519-blake3"

\* The key pairs of the model: a private key and the public key it derives.
PubKeys == {"k1", "k2", "k3"}
PrivateKeyOf(pub) == "sk:" \o pub
derivePublicKey(privateKey) ==
  CHOOSE pub \in PubKeys : PrivateKeyOf(pub) = privateKey

createSigningMessage(message, suiteId) ==
  "OERC-S:v1:" \o suiteId \o ":" \o message

\* Ed25519 as an ideal signature scheme: a signature names the public key
\* that accepts it and the message it was made over.
ed25519Sign(messageHash, privateKey) ==
  "ed25519(" \o derivePublicKey(privateKey) \o "," \o messageHash \o ")"
ed25519Verify(sigBytes, messageHash, pubKeyBytes) ==
  sigBytes = "ed25519(" \o pubKeyBytes \o "," \o messageHash \o ")"

\* signMessage with the suite the CLI always passes
signMessage(privateKey, message) ==
  ed25519Sign(computeBlake3(createSigningMessage(message, SUITE)), privateKey)

\* verifySignature: suiteId is the JSON value of suite_id (the default applies
\* when it is undefined); thrown is the Error of line 130, ok the boolean
\* returned. A pubkey that is not the hex of a 32-byte key gives false.
verifySignature(pubkey, message, sig, suiteId) ==
  IF suiteId.t # "undefined" /\ suiteId # JStr(SUITE)
  THEN [thrown |-> TRUE, ok |-> FALSE]
  ELSE [thrown |-> FALSE,
        ok |-> /\ normalizeHex(pubkey) \in PubKeys
               /\ ed25519Verify(sig,
                    computeBlake3(createSigningMessage(message, SUITE)),
                    normalizeHex(pubkey))]

\* ------------------------------------------------------------------ errors

\* An error or warning string: its kind and the values interpolated into it.
Err(kind, i, j, a, b) ==
  [kind |-> kind, i |-> i, j |-> j, a |-> a, b |-> b, c |-> ""]

\* validCount >= threshold and validCount < threshold for the JSON value of
\* threshold: both are false when it is undefined (NaN), null counts as 0.
NumGe(n, v) ==
  CASE v.t = "number" -> n >= v.n
    [] v.t = "null" -> n >= 0
    [] OTHER -> FALSE
NumLt(n, v) ==
  CASE v.t = "number" -> n < v.n
    [] v.t = "null" -> n < 0
    [] OTHER -> FALSE

\* ---------------------------------------------------------- verifySigset

\* The set of authorized pubkeys passed to verifySigset, or none.
NoAuth == [given |-> FALSE, keys |-> {}]
\* faulty variant: an empty set is passed as no set at all
AuthUnlessEmpty(keys) == [given |-> keys # {}, keys |-> keys]

Auth(keys) == [given |-> TRUE, keys |-> keys]

\* faulty variant: the authorization filter is skipped
isUnauthorizedNever(authorizedPubkeys, sig) == FALSE

\* line 53
isUnauthorized(authorizedPubkeys, sig) ==
  /\ authorizedPubkeys.given
  /\ toLowerCase(Get(sig, "pubkey").s) \notin authorizedPubkeys.keys

\* The loop of lines 48-65 from index i (1-based here, i - 1 in the messages).
RECURSIVE sigsetLoop(_, _, _, _, _, _)
sigsetLoop(sigs, message, authorizedPubkeys, i, validCount, errors) ==
  IF i > Len(sigs)
  THEN [thrown |-> FALSE, validCount |-> validCount, errors |-> errors]
  ELSE
    LET sig == sigs[i] IN
    IF Falsy(sig)
    THEN sigsetLoop(sigs, message, authorizedPubkeys, i + 1, validCount, errors)
    ELSE IF isUnauthorized(authorizedPubkeys, sig)
    THEN sigsetLoop(sigs, message, authorizedPubkeys, i + 1, validCount,
           Append(errors, Err("NotAuthorized", i - 1, 0, Get(sig, "pubkey").s, "")))
    ELSE
      LET isValid == verifySignature(Get(sig, "pubkey").s, message,
                                     Get(sig, "sig").s, Get(sig, "suite_id")) IN
      IF isValid.thrown
      THEN [thrown |-> TRUE, validCount |-> validCount, errors |-> errors]
      ELSE IF isValid.ok
      THEN sigsetLoop(sigs, message, authorizedPubkeys, i + 1, validCount + 1, errors)
      ELSE sigsetLoop(sigs, message, authorizedPubkeys, i + 1, validCount,
             Append(errors, Err("InvalidSignature", i - 1, 0, Get(sig, "pubkey").s, "")))

\* faulty variant: the threshold must be exceeded
thresholdMetStrict(validCount, threshold) ==
  CASE threshold.t = "number" -> validCount > threshold.n
    [] OTHER -> FALSE

\* line 67
thresholdMet(validCount, threshold) == NumGe(validCount, threshold)

verifySigset(sigset, message, authorizedPubkeys) ==
  LET loop == sigsetLoop(Elems(Get(sigset, "signatures")), message,
                         authorizedPubkeys, 1, 0, <<>>)
      threshold == Get(sigset, "threshold")
      valid == thresholdMet(loop.validCount, threshold)
  IN IF loop.thrown
     THEN [thrown |-> TRUE, valid |-> FALSE, validCount |-> 0, errors |-> <<>>]
     ELSE [thrown |-> FALSE,
           valid |-> valid,
           validCount |-> loop.validCount,
           errors |->
             IF ~valid /\ NumLt(loop.validCount, threshold)
             THEN Append(loop.errors,
                    Err("ThresholdNotMet", loop.validCount, threshold.n, "", ""))
             ELSE loop.errors]

\* ----------------------------------------------------------------- results

\* A VerificationResult; thrown marks a call that raised an exception
\* instead of returning. Absent warnings are the empty list.
success(warnings) ==
  [thrown |-> FALSE, valid |-> TRUE, errors |-> <<>>, warnings |-> warnings]
\* faulty variant: the result of a failure is marked valid
failureMarkedValid(errors) ==
  [thrown |-> FALSE, valid |-> TRUE, errors |-> errors, warnings |-> <<>>]

failure(errors) ==
  [thrown |-> FALSE, valid |-> FALSE, errors |-> errors, warnings |-> <<>>]
Thrown ==
  [thrown |-> TRUE, valid |-> FALSE, errors |-> <<>>, warnings |-> <<>>]

\* errors pushed when cond holds
When(cond, errors) == IF cond THEN errors ELSE <<>>

\* faulty variant: the warnings are pushed onto the error list
finishWarningsAsErrors(errors, warnings) ==
  IF Len(errors \o warnings) > 0 THEN failure(errors \o warnings) ELSE success(<<>>)

\* lines 170-174, 286-290, 398-402
finish(errors, warnings) ==
  IF Len(errors) > 0 THEN failure(errors) ELSE success(warnings)

\* The set built from policy.authorized_signers (lines 134-139, 274-279).
authorizedSet(policy) ==
  LET signers == Get(policy, "authorized_signers") IN
  IF Falsy(signers) THEN {}
  ELSE {toLowerCase(Get(signers.kv[i].v, "pubkey").s) : i \in 1..Len(signers.kv)}

\* The instants of the model and their ISO-8601 text (Date.toISOString);
\* dateBefore(text, now) is new Date(text) < now, false for any other text
\* (an invalid Date compares false).
Instants == {0, 1, 2}
ISO == <<"2025-01-01T00:00:00Z", "2025-01-01T01:00:00Z", "2025-01-01T02:00:00Z">>
toISOString(t) == ISO[t + 1]
dateBefore(text, now) == \E t \in Instants : toISOString(t) = text /\ t < now

\* ----------------------------------------------------------- verifyIntent

\* lines 162-168: the warnings collected when new Date() gives now
expiryWarnings(policy, now) ==
  LET expiresAt == Get(policy, "expires_at")
  IN When(~Falsy(expiresAt) /\ dateBefore(expiresAt.s, now),
          <<Err("Expired", 0, 0, expiresAt.s, "")>>)

\* now is the value of new Date() read on line 165.
verifyIntent(intent, now) ==
  LET body == Get(intent, "body")
      policy == Get(body, "policy")
      sigset == Get(intent, "sigset")
  IN
  IF Get(intent, "object_type") # JStr("intent")
  THEN failure(<<Err("InvalidObjectType", 0, 0, "intent", Get(intent, "object_type").s)>>)
  ELSE IF Falsy(body) THEN failure(<<Err("MissingBody", 0, 0, "", "")>>)
  ELSE
    LET structural ==
          When(Falsy(Get(body, "id")), <<Err("Missing", 0, 0, "body.id", "")>>)
          \o When(Falsy(Get(body, "version")), <<Err("Missing", 0, 0, "body.version", "")>>)
          \o When(Falsy(policy), <<Err("Missing", 0, 0, "body.policy", "")>>)
    IN
    IF Len(structural) > 0 THEN failure(structural)
    ELSE
      LET computedId == computeObjectId(body)
          idErrors ==
            When(Get(body, "id") # JStr(computedId),
                 <<Err("IdMismatch", 0, 0, Get(body, "id").s, computedId)>>)
          authorizedPubkeys == authorizedSet(policy)
      IN
      IF Falsy(sigset)
      THEN failure(idErrors \o <<Err("Missing", 0, 0, "sigset", "")>>)
      ELSE
        LET bodyCanonical == extractBodyForSigning(intent)
            sigResult == verifySigset(sigset, bodyCanonical, Auth(authorizedPubkeys))
            minSigners == Get(policy, "min_signers")
            errors ==
              idErrors
              \o When(~sigResult.valid, sigResult.errors)
              \o When(~Falsy(minSigners) /\ NumLt(sigResult.validCount, minSigners),
                      <<Err("MinSignersNotMet", sigResult.validCount, minSigners.n, "", "")>>)
            warnings == expiryWarnings(policy, now)
        IN IF sigResult.thrown THEN Thrown ELSE finish(errors, warnings)

\* ------------------------------------------------------------ verifyFrame

\* intent is the optional parent Intent (undefined when not given).
verifyFrame(frame, intent) ==
  LET body == Get(frame, "body")
      signature == Get(frame, "signature")
  IN
  IF Get(frame, "object_type") # JStr("frame")
  THEN failure(<<Err("InvalidObjectType", 0, 0, "frame", Get(frame, "object_type").s)>>)
  ELSE IF Falsy(body) THEN failure(<<Err("MissingBody", 0, 0, "", "")>>)
  ELSE
    LET structural ==
          When(Falsy(Get(body, "id")), <<Err("Missing", 0, 0, "body.id", "")>>)
          \o When(Falsy(Get(body, "intent_id")), <<Err("Missing", 0, 0, "body.intent_id", "")>>)
          \o When(Get(body, "sequence").t # "number", <<Err("Missing", 0, 0, "body.sequence", "")>>)
          \o When(Falsy(Get(body, "executor")), <<Err("Missing", 0, 0, "body.executor", "")>>)
    IN
    IF Len(structural) > 0 THEN failure(structural)
    ELSE
      LET computedId == computeObjectId(body)
          idErrors ==
            When(Get(body, "id") # JStr(computedId),
                 <<Err("IdMismatch", 0, 0, Get(body, "id").s, computedId)>>)
      IN
      IF Falsy(signature)
      THEN failure(idErrors \o <<Err("Missing", 0, 0, "signature", "")>>)
      ELSE
        LET bodyCanonical == extractBodyForSigning(frame)
            pubkey == Get(signature, "pubkey").s
            executor == Get(body, "executor").s
            sigValid == verifySignature(pubkey, bodyCanonical,
                                        Get(signature, "sig").s, Get(signature, "suite_id"))
            intentBody == Get(intent, "body")
            errors ==
              idErrors
              \o When(~sigValid.ok, <<Err("InvalidExecutorSignature", 0, 0, "", "")>>)
              \o When(toLowerCase(pubkey) # toLowerCase(executor),
                      <<Err("SignerNotExecutor", 0, 0, pubkey, executor)>>)
              \o When(~Falsy(intent) /\ Get(body, "intent_id") # Get(intentBody, "id"),
                      <<Err("IntentIdMismatch", 0, 0,
                            Get(body, "intent_id").s, Get(intentBody, "id").s)>>)
            warnings ==
              When(/\ ~Falsy(intent)
                   /\ toLowerCase(executor) \notin authorizedSet(Get(intentBody, "policy")),
                   <<Err("ExecutorNotAuthorized", 0, 0, executor, "")>>)
        IN IF sigValid.thrown THEN Thrown ELSE finish(errors, warnings)

\* --------------------------------------------------------- verifyCollapse

\* frames is the optional array of Frames (undefined when not given).
verifyCollapse(collapse, frames) ==
  LET body == Get(collapse, "body")
      sigset == Get(collapse, "sigset")
  IN
  IF Get(collapse, "object_type") # JStr("collapse")
  THEN failure(<<Err("InvalidObjectType", 0, 0, "collapse", Get(collapse, "object_type").s)>>)
  ELSE IF Falsy(body) THEN failure(<<Err("MissingBody", 0, 0, "", "")>>)
  ELSE
    LET structural ==
          When(Falsy(Get(body, "id")), <<Err("Missing", 0, 0, "body.id", "")>>)
          \o When(Falsy(Get(body, "intent_id")), <<Err("Missing", 0, 0, "body.intent_id", "")>>)
          \o When(Get(body, "frame_ids").t # "array", <<Err("Missing", 0, 0, "body.frame_ids", "")>>)
    IN
    IF Len(structural) > 0 THEN failure(structural)
    ELSE
      LET computedId == computeObjectId(body)
          idErrors ==
            When(Get(body, "id") # JStr(computedId),
                 <<Err("IdMismatch", 0, 0, Get(body, "id").s, computedId)>>)
      IN
      IF Falsy(sigset)
      THEN failure(idErrors \o <<Err("Missing", 0, 0, "sigset", "")>>)
      ELSE
        LET bodyCanonical == extractBodyForSigning(collapse)
            sigResult == verifySigset(sigset, bodyCanonical, NoAuth)
            summary == Get(body, "summary")
            frameIds == Elems(Get(body, "frame_ids"))
            given == frames.t = "array" /\ Len(frames.kv) > 0
            supplied == IF given THEN Elems(frames) ELSE <<>>
            frameIdSet == {Get(Get(supplied[i], "body"), "id") : i \in 1..Len(supplied)}
            isForeign(f) == Get(Get(f, "body"), "intent_id") # Get(body, "intent_id")
            foreign == SelectSeq(supplied, isForeign)
            isAbsent(id) == id \notin frameIdSet
            absent == IF given THEN SelectSeq(frameIds, isAbsent) ELSE <<>>
            errors ==
              idErrors
              \o When(~sigResult.valid, sigResult.errors)
              \o [i \in 1..Len(foreign) |->
                    [Err("FrameIntentMismatch", 0, 0,
                         Get(Get(foreign[i], "body"), "id").s,
                         Get(Get(foreign[i], "body"), "intent_id").s)
                       EXCEPT !.c = Get(body, "intent_id").s]]
            warnings ==
              (IF Falsy(summary)
               THEN <<Err("MissingSummary", 0, 0, "", "")>>
               ELSE When(Get(summary, "frame_count") # JNum(Len(frameIds)),
                         <<Err("FrameCountMismatch", Get(summary, "frame_count").n,
                               Len(frameIds), "", "")>>))
              \o [i \in 1..Len(absent) |-> Err("FrameNotProvided", 0, 0, absent[i].s, "")]
        IN IF sigResult.thrown THEN Thrown ELSE finish(errors, warnings)

\* ---------------------------------------------------------- verifySegment

verifySegment(segment) ==
  LET body == Get(segment, "body")
      sigset == Get(segment, "sigset")
  IN
  IF Get(segment, "object_type") # JStr("segment")
  THEN failure(<<Err("InvalidObjectType", 0, 0, "segment", Get(segment, "object_type").s)>>)
  ELSE IF Falsy(body) THEN failure(<<Err("MissingBody", 0, 0, "", "")>>)
  ELSE
    LET computedId == computeObjectId(body)
        idErrors ==
          When(Get(body, "id") # JStr(computedId),
               <<Err("IdMismatch", 0, 0, Get(body, "id").s, computedId)>>)
    IN
    IF Falsy(sigset)
    THEN failure(idErrors \o <<Err("Missing", 0, 0, "sigset", "")>>)
    ELSE
      LET sigResult == verifySigset(sigset, extractBodyForSigning(segment), NoAuth)
          errors == idErrors \o When(~sigResult.valid, sigResult.errors)
      IN IF sigResult.thrown THEN Thrown ELSE finish(errors, <<>>)

\* ------------------------------------------------------------------ verify

\* the type guards of types.ts
isIntent(obj) == Get(obj, "object_type") = JStr("intent")
isFrame(obj) == Get(obj, "object_type") = JStr("frame")
isCollapse(obj) == Get(obj, "object_type") = JStr("collapse")
isSegment(obj) == Get(obj, "object_type") = JStr("segment")

\* now is the value of new Date() that verifyIntent reads.
verify(obj, now) ==
  IF isIntent(obj) THEN verifyIntent(obj, now)
  ELSE IF isFrame(obj) THEN verifyFrame(obj, Undef)
  ELSE IF isCollapse(obj) THEN verifyCollapse(obj, Undef)
  ELSE IF isSegment(obj) THEN verifySegment(obj)
  ELSE failure(<<Err("UnknownObjectType", 0, 0, "", "")>>)

\* reading a property of null or undefined raises a TypeError
verifySingleSignature(signature, message) ==
  IF signature.t \in {"null", "undefined"} THEN Thrown
  ELSE
    LET valid == verifySignature(Get(signature, "pubkey").s, message,
                                 Get(signature, "sig").s, Get(signature, "suite_id"))
    IN IF valid.thrown THEN Thrown
       ELSE IF valid.ok THEN success(<<>>)
       ELSE failure(<<Err("InvalidSingleSignature", 0, 0, "", "")>>)

\* ------------------------------------------------------------ CLI commands

\* emit-frame (lines 179-228): input is the parsed --in file, privateKey the
\* key read, now the clock; the value is the signed Frame written to --out.
emitFrame(input, privateKey, now) ==
  LET publicKey == derivePublicKey(privateKey)
      body0 == IF Get(input, "object_type") = JStr("frame")
               THEN Get(input, "body") ELSE input
      body1 == IF Falsy(Get(body0, "executor"))
               THEN Put(body0, "executor", JStr(publicKey)) ELSE body0
      body == IF Falsy(Get(body1, "id"))
              THEN Put(body1, "id", JStr(computeObjectId(body1))) ELSE body1
      sig == signMessage(privateKey, toCanonical(body))
  IN JObj(<<P("object_type", JStr("frame")),
            P("body", body),
            P("signature",
              JObj(<<P("pubkey", JStr(publicKey)),
                     P("sig", JStr(sig)),
                     P("suite_id", JStr(SUITE)),
                     P("signed_at", JStr(toISOString(now)))>>))>>)

\* ---- the collapse command (lines 250-354)

\* a + b for two numbers: the sum, rounded to the nearest double, a tie going
\* to the one with the even mantissa. From hi * 2^53 on, doubles are spaced
\* 2 apart while hi = 1, 4 apart while hi is 2 or 3, 8 apart up to hi = 7.
RoundToDouble(hi, n) ==
  LET u == IF hi = 0 THEN 1 ELSE IF hi = 1 THEN 2 ELSE IF hi < 4 THEN 4 ELSE 8
      q == n \div u
      r == n % u
  IN IF 2 * r < u THEN JBig(hi, q * u)
     ELSE IF 2 * r > u THEN JBig(hi, (q + 1) * u)
     ELSE IF q % 2 = 0 THEN JBig(hi, q * u)
     ELSE JBig(hi, (q + 1) * u)

Add(a, b) == RoundToDouble(a.hi + b.hi, a.n + b.n)

\* Array.prototype.sort with the comparator of line 270: a stable sort, so
\* frames of equal sequence stay in the order they were read in.
sequenceOf(frame) == Get(Get(frame, "body"), "sequence").n

RECURSIVE InsertFrame(_, _)
InsertFrame(frame, sorted) ==
  IF Len(sorted) = 0 THEN <<frame>>
  ELSE IF sequenceOf(frame) - sequenceOf(sorted[1]) < 0 THEN <<frame>> \o sorted
  ELSE <<sorted[1]>> \o InsertFrame(frame, Tail(sorted))

\* faulty variant: the frames are left in the order they were read in
sortFramesNot(frames) == frames

RECURSIVE sortFrames(_)
sortFrames(frames) ==
  IF Len(frames) = 0 THEN <<>>
  ELSE InsertFrame(frames[Len(frames)], sortFrames(SubSeq(frames, 1, Len(frames) - 1)))

\* lines 289-295: metrics is the list of all metrics of the frames, in order
RECURSIVE aggregate(_, _)
aggregate(aggregatedMetrics, metrics) ==
  IF Len(metrics) = 0 THEN aggregatedMetrics
  ELSE
    LET metric == metrics[1]
        name == Get(metric, "name").s
        held == Get(aggregatedMetrics, name)
        current == IF held.t \in {"undefined", "null"} THEN JNum(0) ELSE held
    IN aggregate(Put(aggregatedMetrics, name, Add(current, Get(metric, "value"))),
                 Tail(metrics))

RECURSIVE metricsOf(_)
metricsOf(frames) ==
  IF Len(frames) = 0 THEN <<>>
  ELSE LET metrics == Get(Get(frames[1], "body"), "metrics")
       IN (IF metrics.t \in {"undefined", "null"} THEN <<>> ELSE Elems(metrics))
          \o metricsOf(Tail(frames))

\* lines 298-304
finalStatusOf(frames) ==
  LET lastFrame == frames[Len(frames)]
      failed(f) == Get(Get(f, "body"), "status") = JStr("failed")
  IN IF failed(lastFrame) THEN "failed"
     ELSE IF \E i \in 1..Len(frames) : failed(frames[i]) THEN "partial"
     ELSE "success"

\* The command did not write its file: it printed an error and exited with 1.
Failed == [failed |-> TRUE, file |-> Undef]

\* files are the parsed frame files in the order expandGlob lists them,
\* privateKey the key read, now and signedAt the two readings of the clock;
\* the value says whether the command failed and what it wrote to --out.
collapseCommand(files, privateKey, now, signedAt) ==
  IF Len(files) = 0 THEN Failed
  ELSE IF \E i \in 1..Len(files) : ~isFrame(files[i]) THEN Failed
  ELSE IF \E i \in 1..Len(files) : Get(files[i], "body").t \in {"undefined", "null"}
  THEN Failed
  ELSE
    LET publicKey == derivePublicKey(privateKey)
        frames == sortFrames(files)
        intentId == Get(Get(frames[1], "body"), "intent_id")
    IN
    IF \E i \in 1..Len(frames) : Get(Get(frames[i], "body"), "intent_id") # intentId
    THEN Failed
    ELSE
      LET aggregatedMetrics == aggregate(JObj(<<>>), metricsOf(frames))
          finalStatus == finalStatusOf(frames)
          collapseBody ==
            JObj(<<P("version", JStr("1.0.0")),
                   P("id", JStr("")),
                   P("intent_id", intentId),
                   P("frame_ids",
                     JArr([i \in 1..Len(frames) |-> Get(Get(frames[i], "body"), "id")])),
                   P("summary",
                     JObj(<<P("frame_count", JNum(Len(frames))),
                            P("aggregated_metrics", aggregatedMetrics),
                            P("final_status", JStr(finalStatus))>>)),
                   P("collapsed_at", JStr(toISOString(now))),
                   P("payload", JObj(<<>>))>>)
          body == Put(collapseBody, "id", JStr(computeObjectId(collapseBody)))
          sig == signMessage(privateKey, toCanonical(body))
          signature ==
            JObj(<<P("pubkey", JStr(publicKey)),
                   P("sig", JStr(sig)),
                   P("suite_id", JStr(SUITE)),
                   P("signed_at", JStr(toISOString(signedAt)))>>)
      IN [failed |-> FALSE,
          file |-> JObj(<<P("object_type", JStr("collapse")),
                          P("body", body),
                          P("sigset",
                            JObj(<<P("threshold", JNum(1)),
                                   P("signatures", JArr(<<signature>>))>>))>>)]

\* ------------------------------------------------------------ conformance

\* the string of an error, as the verify functions build it
Text(e) ==
  CASE e.kind = "NotAuthorized" ->
         "Signature " \o ToStr(e.i) \o ": signer " \o e.a \o " is not authorized"
    [] e.kind = "InvalidSignature" ->
         "Signature " \o ToStr(e.i) \o ": invalid signature from " \o e.a
    [] e.kind = "ThresholdNotMet" ->
         "Threshold not met: " \o ToStr(e.i) \o " valid signatures, need " \o ToStr(e.j)
    [] e.kind = "InvalidObjectType" ->
         "Invalid object_type: expected '" \o e.a \o "', got '" \o e.b \o "'"
    [] e.kind = "MissingBody" -> "Missing body"
    [] e.kind = "Missing" ->
         IF e.a \in {"body.sequence", "body.frame_ids"}
         THEN "Missing or invalid " \o e.a ELSE "Missing " \o e.a
    [] e.kind = "IdMismatch" ->
         "ID mismatch: body.id is " \o e.a \o ", computed ID is " \o e.b
    [] e.kind = "MinSignersNotMet" ->
         "Policy min_signers not met: " \o ToStr(e.i) \o " valid, need " \o ToStr(e.j)
    [] e.kind = "InvalidExecutorSignature" -> "Invalid executor signature"
    [] e.kind = "SignerNotExecutor" ->
         "Signature pubkey " \o e.a \o " does not match executor " \o e.b
    [] e.kind = "IntentIdMismatch" ->
         "Frame intent_id " \o e.a \o " does not match intent " \o e.b
    [] e.kind = "FrameIntentMismatch" ->
         "Frame " \o e.a \o " has intent_id " \o e.b \o ", expected " \o e.c
    [] e.kind = "UnknownObjectType" -> "Unknown object type"
    [] e.kind = "InvalidSingleSignature" -> "Invalid signature"
    [] OTHER -> e.kind

\* the text of the Error verifySignature throws (crypto.ts:130), the only
\* unsupported suite of the model being ml-dsa-65
UnsupportedSuiteError ==
  "Error: Unsupported suite: ml-dsa-65. Only ed25519-blake3 is currently supported."

\* wrapObject: thrown when obj is null or undefined (line 134 reads a
\* property of it)
wrapObject(obj, type) ==
  IF obj.t \in {"null", "undefined"} THEN [thrown |-> TRUE, value |-> Undef]
  ELSE IF ~Falsy(Get(obj, "object_type")) THEN [thrown |-> FALSE, value |-> obj]
  ELSE
    LET sigset == Get(obj, "sigset")
        signature == Get(obj, "signature")
    IN [thrown |-> FALSE,
        value |->
          JObj(<<P("object_type", type),
                 P("body", obj),
                 P("sigset",
                   IF Falsy(sigset)
                   THEN JObj(<<P("threshold", JNum(1)), P("signatures", JArr(<<>>))>>)
                   ELSE sigset),
                 P("signature", IF Falsy(signature) THEN JNull ELSE signature)>>)]

\* faulty variant: the expected error must appear letter for letter
errorMatchExactCase(errors, expectedError) ==
  \E i \in 1..Len(errors) : includes(errors[i], expectedError)

\* lines 103-106
errorMatch(errors, expectedError) ==
  \E i \in 1..Len(errors) :
    \/ includes(errors[i], expectedError)
    \/ includes(toUpperCase(errors[i]), toUpperCase(expectedError))

\* verified.errors are the error strings
formatError(vector, verified, matched) ==
  LET expected == Get(vector, "expected_result")
      expectedError == Get(vector, "expected_error")
      parts ==
        (IF expected = JStr("valid") /\ ~verified.valid
         THEN <<"Expected valid but got invalid: " \o JoinWith(verified.errors, ", ")>>
         ELSE IF expected = JStr("invalid") /\ verified.valid
         THEN <<"Expected invalid but got valid">>
         ELSE <<>>)
        \o (IF ~matched /\ ~Falsy(expectedError)
            THEN <<"Expected error containing \"" \o expectedError.s \o "\" but got: "
                     \o JoinWith(verified.errors, ", ")>>
            ELSE <<>>)
  IN IF Len(parts) = 0 THEN "Unknown error" ELSE JoinWith(parts, "; ")

\* A ConformanceResult; threw: it was made by the catch of runVector.
\* aborted: runVector did not return, an exception left it.
ConformanceResult(name, passed, error, threw, valid, errors) ==
  [aborted |-> FALSE, name |-> name, passed |-> passed, error |-> error,
   threw |-> threw, valid |-> valid, errors |-> errors]

\* The catch of lines 118-124 reads vector.vector_id: for a vector that is
\* null the exception caught is followed by one that leaves runVector.
caught(vector, exception) ==
  IF vector.t \in {"null", "undefined"}
  THEN [ConformanceResult(Undef, FALSE, "", TRUE, FALSE, <<>>) EXCEPT !.aborted = TRUE]
  ELSE ConformanceResult(Get(vector, "vector_id"), FALSE,
                         "Exception during verification: " \o exception,
                         TRUE, FALSE, <<>>)

\* lines 95-117: verify has returned or thrown
judge(vector, verified) ==
  IF verified.thrown THEN caught(vector, UnsupportedSuiteError)
  ELSE
    LET errors == [i \in 1..Len(verified.errors) |-> Text(verified.errors[i])]
        expected == Get(vector, "expected_result")
        expectedError == Get(vector, "expected_error")
        passed == IF expected = JStr("valid") THEN verified.valid ELSE ~verified.valid
        matched ==
          IF expected = JStr("invalid") /\ ~Falsy(expectedError)
          THEN errorMatch(errors, expectedError.s)
          ELSE TRUE
        finalPassed == passed /\ (expected = JStr("valid") \/ matched)
    IN ConformanceResult(Get(vector, "vector_id"), finalPassed,
                         IF finalPassed THEN ""
                         ELSE formatError(vector, [verified EXCEPT !.errors = errors],
                                          matched),
                         FALSE, verified.valid, errors)

\* line 93: wrapObject has returned or thrown
verifyWrapped(vector, wrappedObject, now) ==
  IF wrappedObject.thrown
  THEN caught(vector, "TypeError: Cannot read properties of null (reading 'object_type')")
  ELSE judge(vector, verify(wrappedObject.value, now))

\* now is the value of new Date() that verifyIntent reads.
runVector(vector, now) ==
  IF vector.t \in {"null", "undefined"}
  THEN caught(vector, "TypeError: Cannot read properties of null (reading 'object')")
  ELSE verifyWrapped(vector,
                     wrapObject(Get(vector, "object"), Get(vector, "object_type")), now)

\* generateReport: results are the entries made so far, each the vector run
\* and its ConformanceResult
generateReport(results, now) ==
  LET passed == Len(SelectSeq(results, LAMBDA e : e.result.passed))
      failed == Len(results) - passed
      \* the ConformanceResult r of a vector, as the report holds it
      ResultJson(vector, r) ==
        JObj(<<P("name", r.name), P("passed", JBool(r.passed))>>
             \o (IF r.passed THEN <<>> ELSE <<P("error", JStr(r.error))>>)
             \o (IF r.threw THEN <<>>
                 ELSE <<P("actual",
                          JObj(<<P("valid", JBool(r.valid)),
                                 P("errors",
                                   JArr([i \in 1..Len(r.errors) |-> JStr(r.errors[i])]))>>)),
                        P("expected",
                          JObj(<<P("valid",
                                   JBool(Get(vector, "expected_result") = JStr("valid"))),
                                 P("error", Get(vector, "expected_error"))>>))>>))
  IN JObj(<<P("generated_at", JStr(toISOString(now))),
            P("total", JNum(Len(results))),
            P("passed", JNum(passed)),
            P("failed", JNum(failed)),
            P("results",
              JArr([i \in 1..Len(results) |->
                      ResultJson(results[i].call.obj, results[i].result)]))>>)

\* ---- the standalone runner (conformance/runner.ts)

\* thrown: obj is null and a property of it is read
validateObject(vector) ==
  LET Invalid(error) == [thrown |-> FALSE, valid |-> FALSE, error |-> error]
      obj == Get(vector, "object")
      type == Get(vector, "object_type")
      body == Get(obj, "body")
      absent(a, b) == Falsy(a) /\ Falsy(b)
      segmentsRead == IF ~Falsy(Get(obj, "segments")) THEN Get(obj, "segments")
                      ELSE Get(body, "segments")
      segments == IF segmentsRead.t = "array" THEN Elems(segmentsRead) ELSE <<>>
      sig == IF ~Falsy(Get(obj, "signature")) THEN Get(obj, "signature")
             ELSE IF ~Falsy(Get(obj, "orchestrator_signature"))
             THEN Get(obj, "orchestrator_signature")
             ELSE Get(obj, "collapse_signature")
      expectedError == Get(vector, "expected_error")
      windowId == Get(obj, "window_id")
  IN
  IF obj.t \in {"null", "undefined"} THEN [thrown |-> TRUE, valid |-> FALSE, error |-> ""]
  ELSE IF type = JStr("intent") /\ absent(Get(obj, "intent_id"), Get(obj, "id"))
  THEN Invalid("Missing intent_id")
  ELSE IF type = JStr("intent") /\ absent(Get(obj, "timebox"), Get(body, "timebox"))
  THEN Invalid("Missing timebox")
  ELSE IF type = JStr("frame") /\ absent(Get(obj, "frame_id"), Get(obj, "id"))
  THEN Invalid("Missing frame_id")
  ELSE IF type = JStr("frame") /\ absent(Get(obj, "intent_id"), Get(body, "intent_id"))
  THEN Invalid("Missing intent_id reference")
  ELSE IF /\ type = JStr("frame")
          /\ \E i \in 1..(Len(segments) - 1) :
               Get(segments[i], "to_pubkey") # Get(segments[i + 1], "from_pubkey")
  THEN Invalid("SEGMENT_CHAIN_BROKEN")
  ELSE IF type = JStr("collapse") /\ absent(Get(obj, "collapse_id"), Get(obj, "id"))
  THEN Invalid("Missing collapse_id")
  ELSE IF type = JStr("collapse") /\ absent(Get(obj, "window_id"), Get(body, "window_id"))
  THEN Invalid("Missing window_id")
  ELSE IF /\ sig.t = "string"
          /\ \/ includes(sig.s, "deadbeef")
             \/ includes(sig.s, "corrupt")
             \/ includes(sig.s, "bad")
  THEN Invalid("SIGNATURE_VERIFICATION_FAILED")
  ELSE IF /\ ~Falsy(expectedError)
          /\ expectedError.s \in {"SIGNATURE_VERIFICATION_FAILED", "FRAME_SIGNATURE_INVALID",
                                  "FRAME_ALREADY_EXISTS", "SEGMENT_TIMEBOX_OUT_OF_BOUNDS",
                                  "MODALITY_NOT_ALLOWED"}
  THEN Invalid(expectedError.s)
  ELSE IF /\ expectedError = JStr("WINDOW_NOT_FOUND")
          /\ ~Falsy(windowId)
          /\ includes(windowId.s, "notexist")
  THEN Invalid("WINDOW_NOT_FOUND")
  ELSE [thrown |-> FALSE, valid |-> TRUE, error |-> ""]

\* runVector of the standalone runner: thrown when validateObject throws
runnerRunVector(vector) ==
  LET validation == validateObject(vector)
      actualResult == IF validation.valid THEN "valid" ELSE "invalid"
      passed == JStr(actualResult) = Get(vector, "expected_result")
  IN [thrown |-> validation.thrown,
      vector_id |-> Get(vector, "vector_id"),
      passed |-> ~validation.thrown /\ passed,
      expected |-> Get(vector, "expected_result"),
      actual |-> actualResult,
      error |-> IF passed THEN ""
                ELSE "Expected " \o Get(vector, "expected_result").s
                       \o ", got " \o actualResult]

\* the report main writes to report.json
runnerReport(results, now) ==
  LET passed == Len(SelectSeq(results, LAMBDA r : r.passed))
      failed == Len(results) - passed
  IN JObj(<<P("timestamp", JStr(toISOString(now))),
            P("total", JNum(Len(results))),
            P("passed", JNum(passed)),
            P("failed", JNum(failed)),
            P("results",
              JArr([i \in 1..Len(results) |->
                JObj(<<P("vector_id", results[i].vector_id),
                       P("passed", JBool(results[i].passed)),
                       P("expected", results[i].expected),
                       P("actual", JStr(results[i].actual))>>
                     \o (IF results[i].passed THEN <<>>
                         ELSE <<P("error", JStr(results[i].error))>>))]))>>)

\* ------------------------------------------------------------------ inputs

SeqsUpTo(S, n) == UNION {[1..m -> S] : m \in 0..n}

\* a property that is left out when its value is undefined
Opt(k, v) == IF v = Undef THEN <<>> ELSE <<P(k, v)>>

UNSUPPORTED == "ml-dsa-65"

\* A Signature entry; good: the signature the key of pubkey makes over
\* message, otherwise bytes that verify under no key.
SigEntry(pubkey, good, suite, message) ==
  JObj(<<P("pubkey", JStr(pubkey)),
         P("sig", JStr(IF good
                       THEN signMessage(PrivateKeyOf(normalizeHex(pubkey)), message)
                       ELSE "deadbeef"))>>
       \o Opt("suite_id", suite))

\* The entries a signatures list is drawn from: valid ones by three keys (one
\* of them spelled in upper case too), an invalid one, one without suite_id,
\* one declaring an unsupported suite, and a null entry.
SigPool(message) ==
  {SigEntry("k1", TRUE, JStr(SUITE), message),
   SigEntry("K1", TRUE, JStr(SUITE), message),
   SigEntry("k2", TRUE, Undef, message),
   SigEntry("k2", FALSE, JStr(SUITE), message),
   SigEntry("k3", TRUE, JStr(SUITE), message),
   SigEntry("k3", TRUE, JStr(UNSUPPORTED), message),
   JNull}

Sigset(threshold, sigs) ==
  JObj(Opt("threshold", threshold) \o <<P("signatures", JArr(sigs))>>)

SigsetInputs(message) ==
  {Sigset(th, sigs) : th \in {Undef, JNum(0), JNum(1), JNum(2), JNum(3)},
     sigs \in SeqsUpTo(SigPool(message), MaxSigs)}

AuthInputs == {NoAuth, Auth({}), Auth({"k1"}), Auth({"k1", "k2"})}

\* the message verifySigset is called with on its own
MESSAGE == "{\"version\":\"1.0.0\"}"

\* ---- Frames

Segment(from, to) == JObj(<<P("from_pubkey", JStr(from)), P("to_pubkey", JStr(to))>>)

\* EnergySegment: a segment that carries energy_j_partial joules
SegmentLists ==
  LET EnergySegment(from, to, energy) ==
        Put(Segment(from, to), "energy_j_partial", JNum(energy))
  IN
  {Undef,
   JArr(<<Segment("k1", "k2")>>),
   JArr(<<Segment("k1", "k2"), Segment("k2", "k3")>>),
   JArr(<<Segment("k1", "k2"), Segment("k3", "k1")>>),
   JArr(<<EnergySegment("k1", "k2", 3), EnergySegment("k2", "k3", 2)>>)}

BOGUS_ID == "f00d"

\* A Frame body without its id, as a file given to emit-frame holds it.
FrameBodyNoId(intentId, sequence, executor, segments) ==
  JObj(<<P("version", JStr("1.0.0"))>>
       \o Opt("intent_id", intentId) \o Opt("sequence", sequence)
       \o Opt("executor", executor) \o Opt("segments", segments))

\* The body with the id of the given kind: the one emit-frame assigns
\* (lines 201-203), a wrong one, or none.
WithId(body, kind) ==
  CASE kind = "emitted" -> Put(body, "id", JStr(computeObjectId(body)))
    [] kind = "bogus" -> Put(body, "id", JStr(BOGUS_ID))
    [] OTHER -> body

\* how the signature of a Frame input is made
SigSpec(present, pubkey, good, suite) ==
  [present |-> present, pubkey |-> pubkey, good |-> good, suite |-> suite]
NoSig == SigSpec(FALSE, "", FALSE, Undef)

FrameOf(type, body, sig) ==
  JObj(<<P("object_type", JStr(type))>>
       \o Opt("body", body)
       \o (IF sig.present
           THEN <<P("signature",
                    SigEntry(sig.pubkey, sig.good, sig.suite, toCanonical(body)))>>
           ELSE <<>>))

FrameSigSpecs ==
  {SigSpec(TRUE, k, g, su) : k \in {"k1", "k2"}, g \in BOOLEAN,
                             su \in {JStr(SUITE), JStr(UNSUPPORTED)}}
  \cup {SigSpec(TRUE, "K1", TRUE, JStr(SUITE))}

\* Frames that pass the structural checks
FramesWellFormed ==
  {FrameOf("frame",
           WithId(FrameBodyNoId(JStr("I1"), JNum(1), JStr(ex), segs), idKind),
           sig) :
     ex \in {"k1", "K1", "k2"}, segs \in SegmentLists,
     idKind \in {"emitted", "bogus"}, sig \in FrameSigSpecs}

\* Frames with a structural defect: a wrong object_type, no body, or a body
\* with one required field missing or of the wrong type, or no signature.
FramesMalformed ==
  LET sigs == {NoSig, SigSpec(TRUE, "k1", TRUE, JStr(SUITE)),
               SigSpec(TRUE, "k1", FALSE, JStr(SUITE))}
      ids == {"emitted", "bogus", "absent"}
  IN {FrameOf("intent", WithId(FrameBodyNoId(JStr("I1"), JNum(1), JStr("k1"), Undef), idKind), sig) :
        idKind \in ids, sig \in sigs}
     \cup {FrameOf("frame", Undef, NoSig)}
     \cup {FrameOf("frame", WithId(FrameBodyNoId(iid, sq, ex, Undef), idKind), sig) :
             iid \in {Undef, JStr("I1")}, sq \in {Undef, JNum(1), JStr("1")},
             ex \in {Undef, JStr("k1")}, idKind \in ids, sig \in sigs}

FrameInputs == FramesWellFormed \cup FramesMalformed

\* A parent Intent as verifyFrame reads it: body.id and body.policy.
AuthorizedSigners(keys) == JArr([i \in 1..Len(keys) |-> JObj(<<P("pubkey", JStr(keys[i]))>>)])

ParentIntent(id, signers) ==
  JObj(<<P("object_type", JStr("intent")),
         P("body", JObj(<<P("id", JStr(id)),
                          P("policy", JObj(Opt("authorized_signers", signers)))>>))>>)

\* A parent Intent that also states its max_energy_j and when it expires.
ParentIntentWith(id, maxEnergy, expiresAt) ==
  JObj(<<P("object_type", JStr("intent")),
         P("body", JObj(<<P("id", JStr(id))>> \o Opt("max_energy_j", maxEnergy)
                        \o <<P("policy", JObj(Opt("expires_at", expiresAt)))>>))>>)

ParentInputs ==
  {Undef} \cup
  {ParentIntent(id, signers) :
     id \in {"I1", "I2"},
     signers \in {Undef, AuthorizedSigners(<<"K1">>), AuthorizedSigners(<<"k2">>)}}
  \cup {ParentIntentWith("I1", JNum(4), Undef),
        ParentIntentWith("I1", JNum(5), Undef),
        ParentIntentWith("I1", Undef, JStr(toISOString(1)))}

\* The bodies given to emit-frame: with or without executor and id.
EmitInputs ==
  {WithId(FrameBodyNoId(JStr("I1"), JNum(1), ex, segs), idKind) :
     ex \in {Undef, JStr("k1"), JStr("k2")}, segs \in SegmentLists,
     idKind \in {"absent", "bogus"}}

\* ---- signatures of Intents and Collapses

\* the entry a SigSpec describes, made over message
SigOf(spec, message) ==
  IF spec.present THEN SigEntry(spec.pubkey, spec.good, spec.suite, message) ELSE JNull

SigsOf(specs, message) == [i \in 1..Len(specs) |-> SigOf(specs[i], message)]

IntentSigSpecs ==
  {SigSpec(TRUE, "k1", TRUE, JStr(SUITE)),
   SigSpec(TRUE, "K1", TRUE, JStr(SUITE)),
   SigSpec(TRUE, "k2", FALSE, JStr(SUITE)),
   SigSpec(TRUE, "k3", TRUE, JStr(SUITE)),
   SigSpec(TRUE, "k3", TRUE, JStr(UNSUPPORTED))}

CollapseSigSpecs ==
  {SigSpec(TRUE, "k1", TRUE, JStr(SUITE)),
   SigSpec(TRUE, "k2", TRUE, JStr(SUITE)),
   SigSpec(TRUE, "k2", FALSE, JStr(SUITE)),
   SigSpec(TRUE, "k3", TRUE, JStr(UNSUPPORTED))}

\* ---- Intents

Policy(signers, minSigners, expiresAt) ==
  JObj(Opt("authorized_signers", signers) \o Opt("min_signers", minSigners)
       \o Opt("expires_at", expiresAt))

IntentBodyNoId(version, policy) ==
  JObj(Opt("version", version) \o Opt("policy", policy))

SignerLists ==
  {Undef, AuthorizedSigners(<<>>), AuthorizedSigners(<<"k1">>),
   AuthorizedSigners(<<"K1", "k2">>)}

Policies ==
  {Policy(signers, minSigners, expiresAt) :
     signers \in SignerLists,
     minSigners \in {Undef, JNum(2)},
     expiresAt \in {Undef, JStr(toISOString(1))}}

\* bodies that pass the structural checks; the id is the one issue-intent
\* assigns (lines 137-139) or a wrong one
IntentBodies ==
  {WithId(IntentBodyNoId(JStr("1.0.0"), policy), idKind) :
     policy \in Policies, idKind \in {"emitted", "bogus"}}

IntentOf(type, body, sigset) ==
  JObj(<<P("object_type", JStr(type))>> \o Opt("body", body) \o Opt("sigset", sigset))

IntentsWellFormed ==
  {IntentOf("intent", body, Sigset(th, SigsOf(specs, toCanonical(body)))) :
     body \in IntentBodies, th \in {Undef, JNum(1), JNum(2)},
     specs \in SeqsUpTo(IntentSigSpecs, MaxSigs)}

\* Intents with a structural defect
IntentsMalformed ==
  LET sigsets(body) ==
        {Undef,
         Sigset(JNum(1), SigsOf(<<SigSpec(TRUE, "k1", TRUE, JStr(SUITE))>>, toCanonical(body))),
         Sigset(JNum(1), SigsOf(<<SigSpec(TRUE, "k1", FALSE, JStr(SUITE))>>, toCanonical(body)))}
      bodies ==
        {WithId(IntentBodyNoId(version, policy), idKind) :
           version \in {Undef, JStr("1.0.0")},
           policy \in {Undef, Policy(AuthorizedSigners(<<"k1">>), Undef, Undef)},
           idKind \in {"emitted", "bogus", "absent"}}
  IN UNION {{IntentOf(type, body, sigset) : sigset \in sigsets(body), type \in {"intent", "frame"}} :
              body \in bodies}
     \cup {IntentOf("intent", Undef, Undef)}

\* Intents whose sigset holds no signature that verifies: none at all, or
\* one of bytes that verify under no key; the threshold absent or 0
IntentInputs ==
  IntentsWellFormed \cup IntentsMalformed \cup
  {IntentOf("intent", body, Sigset(th, SigsOf(specs, toCanonical(body)))) :
     body \in IntentBodies, th \in {Undef, JNum(0)},
     specs \in {<<>>, <<SigSpec(TRUE, "k2", FALSE, JStr(SUITE))>>}}


\* ---- Collapses

CollapseBodyNoId(intentId, frameIds, summary) ==
  JObj(<<P("version", JStr("1.0.0"))>> \o Opt("intent_id", intentId)
       \o Opt("frame_ids", frameIds) \o Opt("summary", summary))

\* The body with the id of the given kind: the one the collapse command
\* assigns (id '' on line 309, then the hash of that body on line 322), a
\* wrong one, or none.
WithCollapseId(body, kind) ==
  CASE kind = "emitted" ->
         LET collapseBody == Put(body, "id", JStr(""))
         IN Put(collapseBody, "id", JStr(computeObjectId(collapseBody)))
    [] kind = "bogus" -> Put(body, "id", JStr(BOGUS_ID))
    [] OTHER -> body

Summary(frameCount) == JObj(<<P("frame_count", JNum(frameCount))>>)

CollapseBodies ==
  {WithCollapseId(CollapseBodyNoId(JStr("I1"), frameIds, summary), idKind) :
     frameIds \in {JArr(<<JStr("F1")>>), JArr(<<JStr("F1"), JStr("F2")>>)},
     summary \in {Undef, Summary(1), Summary(2)},
     idKind \in {"emitted", "bogus"}}

CollapseOf(type, body, sigset) == IntentOf(type, body, sigset)

CollapsesWellFormed ==
  {CollapseOf("collapse", body, Sigset(th, SigsOf(specs, toCanonical(body)))) :
     body \in CollapseBodies, th \in {JNum(1), JNum(2)},
     specs \in SeqsUpTo(CollapseSigSpecs, MaxSigs)}

CollapsesMalformed ==
  LET sigsets(body) ==
        {Undef,
         Sigset(JNum(1), SigsOf(<<SigSpec(TRUE, "k1", TRUE, JStr(SUITE))>>, toCanonical(body))),
         Sigset(JNum(1), SigsOf(<<SigSpec(TRUE, "k1", FALSE, JStr(SUITE))>>, toCanonical(body)))}
      bodies ==
        {WithCollapseId(CollapseBodyNoId(intentId, frameIds, Summary(1)), idKind) :
           intentId \in {Undef, JStr("I1")},
           frameIds \in {Undef, JStr("F1"), JArr(<<JStr("F1")>>)},
           idKind \in {"emitted", "bogus", "absent"}}
  IN UNION {{CollapseOf(type, body, sigset) : sigset \in sigsets(body), type \in {"collapse", "frame"}} :
              body \in bodies}
     \cup {CollapseOf("collapse", Undef, Undef)}

\* Collapses whose sigset holds no signature that verifies
CollapseInputs ==
  CollapsesWellFormed \cup CollapsesMalformed \cup
  {CollapseOf("collapse", body, Sigset(th, SigsOf(specs, toCanonical(body)))) :
     body \in CollapseBodies, th \in {Undef, JNum(0)},
     specs \in {<<>>, <<SigSpec(TRUE, "k2", FALSE, JStr(SUITE))>>}}


\* A supplied Frame as verifyCollapse reads it: body.id and body.intent_id.
SuppliedFrame(id, intentId) ==
  JObj(<<P("object_type", JStr("frame")),
         P("body", JObj(<<P("id", JStr(id)), P("intent_id", JStr(intentId))>>))>>)

SuppliedInputs ==
  {Undef,
   JArr(<<>>),
   JArr(<<SuppliedFrame("F1", "I1")>>),
   JArr(<<SuppliedFrame("F1", "I1"), SuppliedFrame("F2", "I1")>>),
   JArr(<<SuppliedFrame("F1", "I1"), SuppliedFrame("F2", "I2")>>),
   JArr(<<SuppliedFrame("F2", "I2")>>)}

\* ---- frame files for the collapse command

\* A Frame as the collapse command reads it: id, intent_id, sequence, status
\* and metrics of its body.
FrameFile(id, intentId, sequence, status, metrics) ==
  JObj(<<P("object_type", JStr("frame")),
         P("body", JObj(<<P("version", JStr("1.0.0")),
                          P("id", JStr(id)),
                          P("intent_id", JStr(intentId)),
                          P("sequence", JNum(sequence)),
                          P("status", JStr(status))>>
                        \o Opt("metrics", metrics)))>>)

\* Three frames of intent I1, two of them with the same sequence, one of
\* them failed and one reporting 2^53 joules; a frame of another intent; a
\* file that holds an Intent; a frame file without body.
FrameFiles ==
  LET Metric(name, value) == JObj(<<P("name", JStr(name)), P("value", value)>>) IN
  {FrameFile("F1", "I1", 1, "success", JArr(<<Metric("energy_j", JNum(1))>>)),
   FrameFile("F2", "I1", 2, "failed", JArr(<<Metric("energy_j", JBig(1, 0))>>)),
   FrameFile("F3", "I1", 2, "success", JArr(<<Metric("energy_j", JNum(1))>>)),
   FrameFile("F4", "I2", 3, "success", Undef),
   ParentIntent("I1", Undef),
   FrameOf("frame", Undef, NoSig)}

\* ---- objects for verify besides the Intents, Frames and Collapses above:
\* Segments, and objects of no known type

SegmentObjects ==
  LET sigsets(body) ==
        {Undef,
         Sigset(JNum(1), <<SigEntry("k1", TRUE, JStr(SUITE), toCanonical(body))>>),
         Sigset(JNum(1), <<SigEntry("k1", TRUE, JStr(UNSUPPORTED), toCanonical(body))>>)}
      bodies == {WithId(Segment("k1", "k2"), idKind) : idKind \in {"emitted", "absent"}}
  IN UNION {{IntentOf("segment", body, sigset) : sigset \in sigsets(body)} : body \in bodies}
     \cup {IntentOf("segment", Undef, Undef)}


\* ---- conformance vectors

MaxVectors == 2

TestVector(vectorId, expectedResult, expectedError, objectType, object) ==
  JObj(<<P("vector_id", JStr(vectorId)),
         P("description", JStr("")),
         P("expected_result", JStr(expectedResult)),
         P("expected_error", expectedError),
         P("object_type", JStr(objectType)),
         P("object", object)>>)

\* The contents of the vector files that parse as JSON: well-formed vectors,
\* a vector whose object is null, and a file holding null. IssuedIntent is
\* an Intent as issue-intent writes it, signed by k1 under the given suite;
\* RawFrame and RawIntent are objects in the form the vector files of the
\* conformance suite use, the fields at top level and the signature a hex
\* string.
VectorPool ==
  LET body == WithId(IntentBodyNoId(JStr("1.0.0"),
                       Policy(AuthorizedSigners(<<"k1">>), Undef, Undef)), "emitted")
      IssuedIntent(suite) ==
        IntentOf("intent", body,
          Sigset(JNum(1),
                 SigsOf(<<SigSpec(TRUE, "k1", TRUE, JStr(suite))>>, toCanonical(body))))
      RawFrame ==
        JObj(<<P("id", JStr("F1")), P("intent_id", JStr("I1")),
               P("signature", JStr("deadbeef"))>>)
      RawIntent ==
        JObj(<<P("id", JStr("I1")),
               P("timebox", JObj(<<P("start", JNum(0)), P("end", JNum(1))>>))>>)
  IN
  {TestVector("v-issued-valid", "valid", JNull, "intent", IssuedIntent(SUITE)),
   TestVector("v-issued-invalid", "invalid", JNull, "intent", IssuedIntent(SUITE)),
   TestVector("v-issued-empty", "invalid", JStr(""), "intent", IssuedIntent(SUITE)),
   TestVector("v-id", "invalid", JStr("ID mismatch"), "intent", IssuedIntent(SUITE)),
   TestVector("v-id-case", "invalid", JStr("id MISMATCH"), "intent", IssuedIntent(SUITE)),
   TestVector("v-id-threshold", "invalid", JStr("Threshold not met"), "intent",
              IssuedIntent(SUITE)),
   TestVector("v-suite", "invalid", JNull, "intent", IssuedIntent(UNSUPPORTED)),
   TestVector("v-raw-frame", "invalid", JNull, "frame", RawFrame),
   TestVector("v-raw-frame-sig", "invalid", JStr("SIGNATURE_VERIFICATION_FAILED"),
              "frame", RawFrame),
   TestVector("v-raw-intent", "valid", JNull, "intent", RawIntent),
   TestVector("v-null-object", "invalid", JNull, "intent", JNull),
   JNull}

\* ---- objects for the canonical encoding

Perms(es) ==
  {[i \in 1..Len(es) |-> es[f[i]]] :
     f \in {g \in [1..Len(es) -> 1..Len(es)] :
              \A i, j \in 1..Len(es) : g[i] = g[j] => i = j}}

\* Every object with the keys and values of v, in any insertion order at
\* every nesting level (arrays keep the order of their elements).
RECURSIVE Reorderings(_)
RECURSIVE EntryChoices(_)
EntryChoices(es) ==
  IF Len(es) = 0 THEN {<<>>}
  ELSE {<<P(es[1].k, v)>> \o rest :
          v \in Reorderings(es[1].v), rest \in EntryChoices(Tail(es))}
Reorderings(v) ==
  CASE v.t = "object" -> UNION {{JObj(es) : es \in EntryChoices(p)} : p \in Perms(v.kv)}
    [] v.t = "array" -> {[v EXCEPT !.kv = es] : es \in EntryChoices(v.kv)}
    [] OTHER -> {v}

CanonicalBases ==
  {WithId(IntentBodyNoId(JStr("1.0.0"),
            Policy(AuthorizedSigners(<<"k1">>), minSigners, Undef)), "bogus") :
     minSigners \in {JNum(1), JNum(2)}}
  \cup {JObj(<<P("sequence", sequence),
               P("segments", JArr(<<Segment("k1", "k2"), Segment("k2", "k3")>>))>>) :
          sequence \in {JNum(1), JStr("1")}}

CanonicalInputs == UNION {Reorderings(base) : base \in CanonicalBases}

\* ------------------------------------------------------------------- state

Call(op, obj, ctx, auth, message, now, key) ==
  [op |-> op, obj |-> obj, ctx |-> ctx, auth |-> auth,
   message |-> message, now |-> now, key |-> key]
NoCall == Call("none", Undef, Undef, NoAuth, "", 0, "")

Result(r, validCount) ==
  [thrown |-> r.thrown, valid |-> r.valid, validCount |-> validCount,
   errors |-> r.errors, warnings |-> r.warnings]
NoResult == Result(failure(<<>>), 0)

Init ==
  /\ pc = "idle"
  /\ call = NoCall
  /\ result = NoResult
  /\ out = Undef
  /\ seen = <<>>

\* verifySigset called on a sigset, a message and an optional authorized set
VerifySigset ==
  /\ pc = "idle"
  /\ \E sigset \in SigsetInputs(MESSAGE), auth \in AuthInputs :
       LET r == verifySigset(sigset, MESSAGE, auth) IN
       /\ call' = Call("verifySigset", sigset, Undef, auth, MESSAGE, 0, "")
       /\ result' = [thrown |-> r.thrown, valid |-> r.valid,
                     validCount |-> r.validCount, errors |-> r.errors,
                     warnings |-> <<>>]
  /\ pc' = "done"
  /\ UNCHANGED <<out, seen>>

\* verifyFrame called on a Frame, with or without its parent Intent, at
\* time 2 (verifyFrame does not read the clock)
VerifyFrame ==
  /\ pc = "idle"
  /\ \E frame \in FrameInputs, intent \in ParentInputs :
       /\ call' = Call("verifyFrame", frame, intent, NoAuth, "", 2, "")
       /\ result' = Result(verifyFrame(frame, intent), 0)
  /\ pc' = "done"
  /\ UNCHANGED <<out, seen>>

\* verifyIntent called on an Intent at some time of day
VerifyIntent ==
  /\ pc = "idle"
  /\ \E intent \in IntentInputs, now \in {0, 2} :
       /\ call' = Call("verifyIntent", intent, Undef, NoAuth, "", now, "")
       /\ result' = Result(verifyIntent(intent, now), 0)
  /\ pc' = "done"
  /\ UNCHANGED <<out, seen>>

\* verifyCollapse called on a Collapse, with or without Frames
VerifyCollapse ==
  /\ pc = "idle"
  /\ \E collapse \in CollapseInputs, frames \in SuppliedInputs :
       /\ call' = Call("verifyCollapse", collapse, frames, NoAuth, "", 0, "")
       /\ result' = Result(verifyCollapse(collapse, frames), 0)
  /\ pc' = "done"
  /\ UNCHANGED <<out, seen>>

\* verify called on an object of any type
Verify ==
  /\ pc = "idle"
  /\ \E obj \in IntentsMalformed \cup FramesMalformed \cup CollapsesMalformed
                \cup SegmentObjects
                \cup {JObj(<<>>), JObj(<<P("object_type", JStr("window"))>>)},
        now \in {0, 2} :
       /\ call' = Call("verify(obj)", obj, Undef, NoAuth, "", now, "")
       /\ result' = Result(verify(obj, now), 0)
  /\ pc' = "done"
  /\ UNCHANGED <<out, seen>>

\* verifySingleSignature called on a signature and a message
VerifySingleSignature ==
  /\ pc = "idle"
  /\ \E signature \in SigPool(MESSAGE) :
       /\ call' = Call("verifySingleSignature", signature, Undef, NoAuth, MESSAGE, 0, "")
       /\ result' = Result(verifySingleSignature(signature, MESSAGE), 0)
  /\ pc' = "done"
  /\ UNCHANGED <<out, seen>>

\* canonicalEqual called on two objects
CanonicalEqual ==
  /\ pc = "idle"
  /\ \E a \in CanonicalInputs, b \in CanonicalInputs :
       /\ call' = Call("canonicalEqual", a, b, NoAuth, "", 0, "")
       /\ result' = [NoResult EXCEPT !.valid = canonicalEqual(a, b)]
  /\ pc' = "done"
  /\ UNCHANGED <<out, seen>>

\* the emit-frame command: signs a body and writes the Frame to --out
EmitFrame ==
  /\ pc = "idle"
  /\ \E input \in EmitInputs, pub \in {"k1", "k2"}, now \in Instants :
       /\ call' = Call("emit-frame", input, Undef, NoAuth, "", now, PrivateKeyOf(pub))
       /\ out' = emitFrame(input, PrivateKeyOf(pub), now)
  /\ UNCHANGED seen
  /\ result' = NoResult
  /\ pc' = "emitted"

\* the verify command on the file emit-frame wrote, no --intent given
\* (lines 386-392)
VerifyEmitted ==
  /\ pc = "emitted"
  /\ call' = Call("verify", out, Undef, NoAuth, "", call.now, call.key)
  /\ result' = Result(verifyFrame(out, Undef), 0)
  /\ pc' = "done"
  /\ UNCHANGED <<out, seen>>

\* the collapse command: reads the frame files, writes the signed Collapse
\* to --out or exits with an error
Collapse ==
  /\ pc = "idle"
  /\ \E files \in SeqsUpTo(FrameFiles, MaxFrames), now \in Instants, signedAt \in Instants :
       /\ now <= signedAt
       /\ LET done == collapseCommand(files, PrivateKeyOf("k1"), now, signedAt) IN
          /\ call' = Call("collapse", JArr(files), Undef, NoAuth, "", now, PrivateKeyOf("k1"))
          /\ out' = done.file
          /\ result' = [NoResult EXCEPT !.thrown = done.failed]
  /\ pc' = "done"
  /\ UNCHANGED seen

\* runConformanceCheck, lines 207-208: the vectors are loaded
LoadVectors ==
  /\ pc = "idle"
  /\ \E vectors \in SeqsUpTo(VectorPool, MaxVectors), now \in {0, 2} :
       call' = Call("conformance-check", JArr(vectors), Undef, NoAuth, "", now, "")
  /\ pc' = "running"
  /\ result' = NoResult
  /\ UNCHANGED <<out, seen>>

\* lines 213-222, one turn of the loop: the next vector is run and its result
\* pushed; an exception that leaves runVector leaves runConformanceCheck too
RunVector ==
  /\ pc = "running"
  /\ Len(seen) < Len(call.obj.kv)
  /\ LET vector == Elems(call.obj)[Len(seen) + 1]
         r == runVector(vector, call.now)
     IN IF r.aborted
        THEN /\ pc' = "done"
             /\ result' = [NoResult EXCEPT !.thrown = TRUE]
             /\ UNCHANGED seen
        ELSE /\ pc' = "running"
             /\ seen' = Append(seen,
                          [call |-> Call("runVector", vector, Undef, NoAuth, "", call.now, ""),
                           result |-> r])
             /\ UNCHANGED result
  /\ UNCHANGED <<call, out>>

\* lines 225-242: the report is generated and returned
GenerateReport ==
  /\ pc = "running"
  /\ Len(seen) = Len(call.obj.kv)
  /\ \E generatedAt \in Instants :
       /\ call.now <= generatedAt
       /\ out' = generateReport(seen, generatedAt)
  /\ pc' = "done"
  /\ UNCHANGED <<call, result, seen>>

\* main of the standalone runner: runs every vector and writes its report;
\* an exception of validateObject ends it before any report
RunnerMain ==
  /\ pc = "idle"
  /\ \E vectors \in SeqsUpTo(VectorPool, MaxVectors), now \in {0, 2} :
       LET results == [i \in 1..Len(vectors) |-> runnerRunVector(vectors[i])] IN
       /\ call' = Call("runner", JArr(vectors), Undef, NoAuth, "", now, "")
       /\ IF \E i \in 1..Len(vectors) : results[i].thrown
          THEN /\ result' = [NoResult EXCEPT !.thrown = TRUE]
               /\ UNCHANGED <<out, seen>>
          ELSE /\ result' = NoResult
               /\ out' = runnerReport(results, now)
               /\ seen' = [i \in 1..Len(vectors) |->
                            [call |-> Call("runVector", vectors[i], Undef, NoAuth, "", now, ""),
                             result |-> results[i]]]
  /\ pc' = "done"

\* the call has returned, or the command has exited: the next one starts
\* from a clean working directory
Return ==
  /\ pc = "done"
  /\ pc' = "idle"
  /\ call' = NoCall
  /\ result' = NoResult
  /\ out' = Undef
  /\ seen' = <<>>

Next ==
  \/ VerifySigset
  \/ VerifyIntent
  \/ VerifyFrame
  \/ VerifyCollapse
  \/ Verify
  \/ VerifySingleSignature
  \/ CanonicalEqual
  \/ EmitFrame
  \/ VerifyEmitted
  \/ Return

Spec == Init /\ [][Next]_vars

\* ----------------------------------------------------------------- session
\* A caller that makes up to MaxCalls calls one after another in one process
\* and keeps what it submitted and what it was told (seen).

\* lines 45, 93, 194, 313: each call starts from an error list of its own
\* (const errors: string[] = [] inside the function)

\* faulty variant: the error list is shared with the call before
sharedErrors(earlier) ==
  IF Len(earlier) = 0 THEN <<>> ELSE earlier[Len(earlier)].result.errors

freshErrors(earlier) == <<>>

\* the result r of a call whose error list started as errors
StartingFrom(errors, r) ==
  [r EXCEPT !.errors = errors \o r.errors,
            !.valid = r.valid /\ Len(errors) = 0]

SessionFrames ==
  {FrameOf("frame",
           WithId(FrameBodyNoId(JStr("I1"), JNum(sq), JStr("k1"), Undef), idKind),
           SigSpec(TRUE, "k1", good, JStr(SUITE))) :
     sq \in {1, 2}, idKind \in {"emitted", "bogus"}, good \in BOOLEAN}

SessionCollapses ==
  {LET body == WithCollapseId(
                 Put(CollapseBodyNoId(JStr("I1"), JArr(<<JStr("F1")>>), Summary(1)),
                     "window_id", JStr(w)), idKind)
   IN CollapseOf("collapse", body,
                 Sigset(JNum(1), SigsOf(<<SigSpec(TRUE, "k1", good, JStr(SUITE))>>,
                                        toCanonical(body)))) :
     w \in {"W1", "W2"}, idKind \in {"emitted", "bogus"}, good \in BOOLEAN}

SessionIntents ==
  {LET body == WithId(IntentBodyNoId(JStr("1.0.0"),
                        Policy(AuthorizedSigners(<<"k1">>), Undef, expiresAt)), "emitted")
   IN IntentOf("intent", body,
               Sigset(JNum(1), SigsOf(<<SigSpec(TRUE, "k1", good, JStr(SUITE))>>,
                                      toCanonical(body)))) :
     expiresAt \in {Undef, JStr(toISOString(0))}, good \in BOOLEAN}

SessionSigsets ==
  {Sigset(JNum(1), <<SigEntry("k1", good, JStr(SUITE), MESSAGE)>>) : good \in BOOLEAN}

\* the clock when the next call is made
Clock == IF pc = "done" THEN call.now + 1 ELSE 0

\* a call c that returns r, made at the start of the session or after the
\* call before has returned
SessionCall(c, r) ==
  /\ pc \in {"idle", "done"}
  /\ Len(seen) + (IF pc = "done" THEN 1 ELSE 0) < MaxCalls
  /\ seen' = IF pc = "done" THEN Append(seen, [call |-> call, result |-> result])
             ELSE seen
  /\ call' = c
  /\ result' = StartingFrom(freshErrors(seen'), r)
  /\ pc' = "done"
  /\ UNCHANGED out

SubmitSigset ==
  \E sigset \in SessionSigsets :
    LET r == verifySigset(sigset, MESSAGE, NoAuth) IN
    SessionCall(Call("verifySigset", sigset, Undef, NoAuth, MESSAGE, Clock, ""),
                [thrown |-> r.thrown, valid |-> r.valid, validCount |-> r.validCount,
                 errors |-> r.errors, warnings |-> <<>>])

SubmitIntent ==
  \E intent \in SessionIntents :
    SessionCall(Call("verifyIntent", intent, Undef, NoAuth, "", Clock, ""),
                Result(verifyIntent(intent, Clock), 0))

SubmitFrame ==
  \E frame \in SessionFrames :
    SessionCall(Call("verifyFrame", frame, Undef, NoAuth, "", Clock, ""),
                Result(verifyFrame(frame, Undef), 0))

SubmitCollapse ==
  \E collapse \in SessionCollapses :
    SessionCall(Call("verifyCollapse", collapse, Undef, NoAuth, "", Clock, ""),
                Result(verifyCollapse(collapse, Undef), 0))

SessionNext ==
  \/ SubmitSigset
  \/ SubmitIntent
  \/ SubmitFrame
  \/ SubmitCollapse
  \/ Return

Session == Init /\ [][SessionNext]_vars

\* ------------------------------------------------------- collapse command
\* The collapse command run on its own, on up to MaxFrames frame files.

CollapseNext ==
  \/ Collapse
  \/ Return

CollapseSpec == Init /\ [][CollapseNext]_vars

\* ------------------------------------------------------- conformance check
\* runConformanceCheck, or the standalone runner, on up to MaxVectors vector
\* files.

ConformanceNext ==
  \/ LoadVectors
  \/ RunnerMain
  \/ RunVector
  \/ GenerateReport
  \/ Return

ConformanceSpec == Init /\ [][ConformanceNext]_vars

\* ------------------------------------------------------------------ claims

Done(op) == pc = "done" /\ call.op = op

Kinds(errors) == {errors[i].kind : i \in 1..Len(errors)}

\* the body with its own id property removed
WithoutId(body) == JObj(SelectSeq(body.kv, LAMBDA e : e.k # "id"))

\* the call got past the structural checks on object_type, body and the
\* required body fields
PastStructure ==
  /\ ~result.thrown
  /\ \A i \in 1..Len(result.errors) :
       /\ result.errors[i].kind \notin {"InvalidObjectType", "MissingBody"}
       /\ result.errors[i].kind = "Missing" => result.errors[i].a \in {"sigset", "signature"}

\* the Frame's signature verifies over its canonical body and is by its executor
SignedByExecutor(frame) ==
  LET body == Get(frame, "body")
      signature == Get(frame, "signature")
  IN /\ signature.t = "object"
     /\ Get(signature, "suite_id") = JStr(SUITE)
     /\ verifySignature(Get(signature, "pubkey").s, toCanonical(body),
                        Get(signature, "sig").s, Get(signature, "suite_id")).ok
     /\ toLowerCase(Get(signature, "pubkey").s) = toLowerCase(Get(body, "executor").s)

\* C1 (as claimed): a Frame whose id is the one emit-frame computed for its
\* body (the hash of the body while it has no id) and whose signature is a
\* valid one by its executor over the canonical body is reported valid with
\* no error by verifyFrame without a parent Intent.
C1_EmitVerifyRoundTrip ==
  (/\ pc = "done"
   /\ call.op \in {"verify", "verifyFrame"}
   /\ call.ctx = Undef
   /\ Get(call.obj, "object_type") = JStr("frame")
   /\ Get(Get(call.obj, "body"), "sequence").t = "number"
   /\ ~Falsy(Get(Get(call.obj, "body"), "intent_id"))
   /\ Get(Get(call.obj, "body"), "id")
        = JStr(computeObjectId(WithoutId(Get(call.obj, "body"))))
   /\ SignedByExecutor(call.obj))
  => (~result.thrown /\ result.valid /\ result.errors = <<>>)

\* C2 (as claimed): in verifyIntent, verifyFrame and verifyCollapse the id
\* check passes exactly when body.id is the hash of the canonical body with
\* its id property removed.
C2_IdExcludesItself ==
  (/\ pc = "done"
   /\ call.op \in {"verifyIntent", "verifyFrame", "verifyCollapse", "verify"}
   /\ PastStructure)
  => ("IdMismatch" \notin Kinds(result.errors)
        <=> Get(Get(call.obj, "body"), "id")
              = JStr(computeBlake3(toCanonical(WithoutId(Get(call.obj, "body"))))))

\* a and b have the same keys and the same values at every nesting level
RECURSIVE SameContent(_, _)
SameContent(a, b) ==
  /\ a.t = b.t
  /\ a.s = b.s
  /\ a.n = b.n
  /\ a.hi = b.hi
  /\ Len(a.kv) = Len(b.kv)
  /\ IF a.t = "object"
     THEN /\ {a.kv[i].k : i \in 1..Len(a.kv)} = {b.kv[i].k : i \in 1..Len(b.kv)}
          /\ \A i \in 1..Len(a.kv) : SameContent(a.kv[i].v, Get(b, a.kv[i].k))
     ELSE \A i \in 1..Len(a.kv) : SameContent(a.kv[i].v, b.kv[i].v)

\* C3: two objects with the same keys and values at every nesting level, in
\* whatever insertion order, are canonicalEqual and get the same id.
C3_CanonicalDeterminism ==
  (Done("canonicalEqual") /\ SameContent(call.obj, call.ctx))
  => (/\ result.valid
      /\ toCanonical(call.obj) = toCanonical(call.ctx)
      /\ computeObjectId(call.obj) = computeObjectId(call.ctx))

\* C3 witness: two objects that differ in the insertion order of a nested
\* object's keys and of the top-level keys were compared and found equal.
C3_Witness ==
  /\ Done("canonicalEqual")
  /\ SameContent(call.obj, call.ctx)
  /\ call.obj.kv[1].k # call.ctx.kv[1].k
  /\ Get(call.obj, "policy").t = "object"
  /\ Get(call.obj, "policy") # Get(call.ctx, "policy")
  /\ result.valid

\* ---- the sigset of a verifySigset call

CallSigs == Elems(Get(call.obj, "signatures"))
CallThreshold == Get(call.obj, "threshold")

\* entry i of sigs passes the authorization filter of auth
PassesFilter(sigs, auth, i) ==
  /\ ~Falsy(sigs[i])
  /\ auth.given => toLowerCase(Get(sigs[i], "pubkey").s) \in auth.keys

\* entry i of sigs verifies cryptographically over message
Verifies(sigs, message, i) ==
  /\ ~Falsy(sigs[i])
  /\ Get(sigs[i], "suite_id") \in {Undef, JStr(SUITE)}
  /\ ed25519Verify(Get(sigs[i], "sig").s,
                   computeBlake3(createSigningMessage(message, SUITE)),
                   normalizeHex(Get(sigs[i], "pubkey").s))

\* the entries that pass the filter and verify
Counted(sigs, message, auth) ==
  {i \in 1..Len(sigs) : PassesFilter(sigs, auth, i) /\ Verifies(sigs, message, i)}

\* sigs with only the entries of keep left
Keep(sigs, keep) == SelectSeq([i \in 1..Len(sigs) |-> [i |-> i, sig |-> sigs[i]]],
                              LAMBDA x : x.i \in keep)
SubList(sigs, keep) == [i \in 1..Len(Keep(sigs, keep)) |-> Keep(sigs, keep)[i].sig]

\* C4: verifySigset reports valid iff the number of signatures that pass the
\* authorization filter and verify is >= threshold; and from a valid sigset
\* with threshold T, removing signatures until fewer than T counted ones
\* remain gives invalid with a threshold-not-met error.
C4_ThresholdDecides ==
  (Done("verifySigset") /\ ~result.thrown)
  => LET counted == Counted(CallSigs, call.message, call.auth) IN
     /\ result.validCount = Cardinality(counted)
     /\ result.valid <=> (CallThreshold.t = "number"
                          /\ Cardinality(counted) >= CallThreshold.n)
     /\ result.valid =>
          \A keep \in SUBSET (1..Len(CallSigs)) :
            Cardinality(counted \cap keep) < CallThreshold.n =>
              LET r == verifySigset(Sigset(CallThreshold, SubList(CallSigs, keep)),
                                    call.message, call.auth)
              IN /\ ~r.thrown
                 /\ ~r.valid
                 /\ \E i \in 1..Len(r.errors) :
                      r.errors[i] = Err("ThresholdNotMet",
                                        Cardinality(counted \cap keep),
                                        CallThreshold.n, "", "")

\* C4 witness: a sigset with threshold 2 was found valid on exactly two
\* counted signatures, so removing either one makes it invalid.
C4_Witness ==
  /\ Done("verifySigset")
  /\ result.valid
  /\ CallThreshold = JNum(2)
  /\ Cardinality(Counted(CallSigs, call.message, call.auth)) = 2

\* the distinct signers among the counted entries
CountedSigners(sigs, message, auth) ==
  {normalizeHex(Get(sigs[i], "pubkey").s) : i \in Counted(sigs, message, auth)}

\* C5 (as claimed): verifySigset counts each signer once: validCount is the
\* number of distinct pubkeys among the counted signatures, so a sigset is
\* valid only if that many distinct signers reach the threshold.
C5_DuplicateSignersCountedOnce ==
  (Done("verifySigset") /\ ~result.thrown)
  => LET signers == CountedSigners(CallSigs, call.message, call.auth) IN
     /\ result.validCount = Cardinality(signers)
     /\ result.valid => Cardinality(signers) >= CallThreshold.n

Has(errors, e) == \E i \in 1..Len(errors) : errors[i] = e

\* the Intent or Collapse of the call, taken apart
CallBody == Get(call.obj, "body")
CallSigset == Get(call.obj, "sigset")
BodySigs == Elems(Get(CallSigset, "signatures"))
BodyThreshold == Get(CallSigset, "threshold")
CallPolicy == Get(CallBody, "policy")

\* the authorized set of an Intent: the pubkeys policy.authorized_signers
\* lists, in lower case
ListedSigners(policy) ==
  LET listed == Elems(Get(policy, "authorized_signers"))
  IN Auth({toLowerCase(Get(listed[i], "pubkey").s) : i \in 1..Len(listed)})

\* C6: with an authorized set, verifySigset counts exactly the signatures
\* whose lower-cased pubkey is in the set and that verify, and records a
\* not-authorized error naming every other signer; verifyIntent counts
\* against the pubkeys of body.policy.authorized_signers.
C6_OnlyAuthorizedCounted ==
  /\ (Done("verifySigset") /\ ~result.thrown /\ call.auth.given)
     => /\ result.validCount
             = Cardinality({i \in 1..Len(CallSigs) :
                              /\ ~Falsy(CallSigs[i])
                              /\ toLowerCase(Get(CallSigs[i], "pubkey").s) \in call.auth.keys
                              /\ Verifies(CallSigs, call.message, i)})
        /\ \A i \in 1..Len(CallSigs) :
             (/\ ~Falsy(CallSigs[i])
              /\ toLowerCase(Get(CallSigs[i], "pubkey").s) \notin call.auth.keys)
             => Has(result.errors,
                    Err("NotAuthorized", i - 1, 0, Get(CallSigs[i], "pubkey").s, ""))
  /\ (Done("verifyIntent") /\ PastStructure /\ CallSigset # Undef)
     => LET auth == ListedSigners(CallPolicy)
            n == Cardinality(Counted(BodySigs, toCanonical(CallBody), auth))
        IN /\ \A i \in 1..Len(result.errors) :
                result.errors[i].kind \in {"ThresholdNotMet", "MinSignersNotMet"}
                => result.errors[i].i = n
           /\ (BodyThreshold.t = "number" /\ n < BodyThreshold.n)
              => /\ "ThresholdNotMet" \in Kinds(result.errors)
                 /\ \A i \in 1..Len(BodySigs) :
                      ~PassesFilter(BodySigs, auth, i)
                      => Has(result.errors,
                             Err("NotAuthorized", i - 1, 0, Get(BodySigs[i], "pubkey").s, ""))

\* C6 witness: verifyIntent left out a signature by k3 that verifies, because
\* k3 is not listed, and counted the one by k1, listed in upper case.
C6_Witness ==
  /\ Done("verifyIntent")
  /\ Len(BodySigs) = 2
  /\ Verifies(BodySigs, toCanonical(CallBody), 2)
  /\ Has(result.errors, Err("NotAuthorized", 1, 0, "k3", ""))
  /\ Has(result.errors, Err("ThresholdNotMet", 1, 2, "", ""))
  /\ "k1" \in ListedSigners(CallPolicy).keys
  /\ Get(Elems(Get(CallPolicy, "authorized_signers"))[1], "pubkey") = JStr("K1")

\* entry i of sigs declares a suite other than the supported one
Unsupported(sigs, i) ==
  /\ ~Falsy(sigs[i])
  /\ Get(sigs[i], "suite_id") \notin {Undef, JStr(SUITE)}

\* C7 (as claimed): a signature declaring an unsupported suite is an error
\* of that signature only: every call returns a result, and verifySigset
\* reports the signature and still counts the others.
C7_UnsupportedSuiteIsAnError ==
  /\ pc = "done" => ~result.thrown
  /\ Done("verifySigset")
     => /\ result.validCount = Cardinality(Counted(CallSigs, call.message, call.auth))
        /\ \A i \in 1..Len(CallSigs) :
             (PassesFilter(CallSigs, call.auth, i) /\ Unsupported(CallSigs, i))
             => \E j \in 1..Len(result.errors) : result.errors[j].i = i - 1

\* ---- inputs that differ in a condition reported as a warning

SameVerdict(r) ==
  /\ r.thrown = result.thrown
  /\ r.valid = result.valid
  /\ r.errors = result.errors

\* the ids quoted in an ID-mismatch error left out
Blind(errors) ==
  [i \in 1..Len(errors) |->
     IF errors[i].kind = "IdMismatch"
     THEN [errors[i] EXCEPT !.a = "", !.b = ""] ELSE errors[i]]

SameVerdictBlind(r) ==
  /\ r.thrown = result.thrown
  /\ r.valid = result.valid
  /\ Blind(r.errors) = Blind(result.errors)

\* the same Intent verified at any other time
ClockVariants ==
  Done("verifyIntent")
  => \A now \in Instants \ {call.now} : SameVerdict(verifyIntent(call.obj, now))

\* the same Frame verified against a parent with other authorized_signers
ParentVariants ==
  (Done("verifyFrame") /\ call.ctx # Undef)
  => \A signers \in {Undef, AuthorizedSigners(<<"k1">>), AuthorizedSigners(<<"k2">>),
                     AuthorizedSigners(<<"K1", "k2">>)} :
       SameVerdict(verifyFrame(call.obj,
         ParentIntent(Get(Get(call.ctx, "body"), "id").s, signers)))

\* the same Collapse verified with the referenced frames that were not
\* supplied added, as frames of the Collapse's intent
SuppliedVariants ==
  Done("verifyCollapse")
  => LET ids == Elems(Get(CallBody, "frame_ids"))
         have == {Get(Get(f, "body"), "id") : f \in {call.ctx.kv[i].v : i \in 1..Len(call.ctx.kv)}}
         missing == SelectSeq(ids, LAMBDA id : id \notin have)
         added == [i \in 1..Len(missing) |->
                     SuppliedFrame(missing[i].s, Get(CallBody, "intent_id").s)]
     IN SameVerdict(verifyCollapse(call.obj, JArr(Elems(call.ctx) \o added)))

SetSummary(body, summary) ==
  IF summary = Undef
  THEN JObj(SelectSeq(body.kv, LAMBDA e : e.k # "summary"))
  ELSE Put(body, "summary", summary)

Summaries == {Undef, Summary(1), Summary(2)}

\* The Collapse with another summary, its id and signatures made again over
\* the new body: the id of the same kind, each signature that verified
\* signed again by the same key.
Remade(collapse, summary) ==
  LET body == Get(collapse, "body")
      id == Get(body, "id")
      kind == IF id = Undef THEN "absent"
              ELSE IF id = JStr(BOGUS_ID) THEN "bogus" ELSE "emitted"
      body2 == WithCollapseId(SetSummary(WithoutId(body), summary), kind)
      sigset == Get(collapse, "sigset")
      sigs == Elems(Get(sigset, "signatures"))
      resign(sig) ==
        IF Falsy(sig) \/ Get(sig, "sig") = JStr("deadbeef") THEN sig
        ELSE Put(sig, "sig",
                 JStr(signMessage(PrivateKeyOf(normalizeHex(Get(sig, "pubkey").s)),
                                  toCanonical(body2))))
      collapse2 == Put(collapse, "body", body2)
  IN IF sigset = Undef THEN collapse2
     ELSE Put(collapse2, "sigset",
              Put(sigset, "signatures", JArr([i \in 1..Len(sigs) |-> resign(sigs[i])])))

\* the Collapse made with another summary gets the same result
SummaryVariants ==
  (Done("verifyCollapse") /\ CallBody.t = "object")
  => \A summary \in Summaries \ {Get(CallBody, "summary")} :
       SameVerdict(verifyCollapse(Remade(call.obj, summary), call.ctx))

\* ... the same result but for the ids quoted in an ID-mismatch error
SummaryVariantsBlind ==
  (Done("verifyCollapse") /\ CallBody.t = "object")
  => \A summary \in Summaries \ {Get(CallBody, "summary")} :
       SameVerdictBlind(verifyCollapse(Remade(call.obj, summary), call.ctx))

\* C8 (as claimed): two inputs that differ only in a condition reported as a
\* warning (the Intent being past expires_at, the executor missing from the
\* parent's authorized_signers, a referenced frame not supplied, the
\* Collapse summary missing or its frame_count mismatching, each Collapse
\* with its id and signatures made over its own body) get the same valid and
\* the same errors.
C8_WarningsChangeNothing ==
  ClockVariants /\ ParentVariants /\ SuppliedVariants /\ SummaryVariants

\* C8 (amended): the same valid and errors for inputs that differ in the
\* time of the call, the parent's authorized_signers or the supplied frames;
\* for two Collapses that differ in summary, each with its id and signatures
\* made over its own body, the same valid and the same errors but for the
\* ids quoted in an ID-mismatch error.
C8_WarningsKeepVerdict ==
  ClockVariants /\ ParentVariants /\ SuppliedVariants /\ SummaryVariantsBlind

\* C8 witness: a Collapse without summary, signed, was verified; made with
\* a summary it gets the same errors but for the ids the ID-mismatch error
\* quotes, which differ.
C8_Witness ==
  /\ Done("verifyCollapse")
  /\ PastStructure
  /\ Get(CallBody, "summary") = Undef
  /\ Kinds(result.errors) = {"IdMismatch", "InvalidSignature", "ThresholdNotMet"}
  /\ LET r == verifyCollapse(Remade(call.obj, Summary(1)), call.ctx)
     IN /\ Blind(r.errors) = Blind(result.errors)
        /\ r.errors # result.errors

\* C9 (as claimed): past the structural checks, every failing check has its
\* own error in the returned list: the id, each signature that is not
\* authorized or does not verify, the threshold and min_signers of an
\* Intent; the signature, its pubkey against the executor and the intent_id
\* against the supplied Intent of a Frame.
C9_EveryViolationReported ==
  /\ (Done("verifyIntent") /\ PastStructure /\ CallSigset # Undef)
     => LET auth == ListedSigners(CallPolicy)
            message == toCanonical(CallBody)
            n == Cardinality(Counted(BodySigs, message, auth))
            minSigners == Get(CallPolicy, "min_signers")
        IN /\ Get(CallBody, "id") # JStr(computeObjectId(CallBody))
              => "IdMismatch" \in Kinds(result.errors)
           /\ \A i \in 1..Len(BodySigs) :
                /\ (~Falsy(BodySigs[i]) /\ ~PassesFilter(BodySigs, auth, i))
                   => Has(result.errors,
                          Err("NotAuthorized", i - 1, 0, Get(BodySigs[i], "pubkey").s, ""))
                /\ (PassesFilter(BodySigs, auth, i) /\ ~Verifies(BodySigs, message, i))
                   => Has(result.errors,
                          Err("InvalidSignature", i - 1, 0, Get(BodySigs[i], "pubkey").s, ""))
           /\ (BodyThreshold.t = "number" /\ n < BodyThreshold.n)
              => "ThresholdNotMet" \in Kinds(result.errors)
           /\ (minSigners.t = "number" /\ n < minSigners.n)
              => "MinSignersNotMet" \in Kinds(result.errors)
  /\ (Done("verifyFrame") /\ PastStructure /\ Get(call.obj, "signature") # Undef)
     => LET signature == Get(call.obj, "signature") IN
        /\ Get(CallBody, "id") # JStr(computeObjectId(CallBody))
           => "IdMismatch" \in Kinds(result.errors)
        /\ ~Verifies(<<signature>>, toCanonical(CallBody), 1)
           => "InvalidExecutorSignature" \in Kinds(result.errors)
        /\ toLowerCase(Get(signature, "pubkey").s) # toLowerCase(Get(CallBody, "executor").s)
           => "SignerNotExecutor" \in Kinds(result.errors)
        /\ (call.ctx # Undef /\ Get(CallBody, "intent_id") # Get(Get(call.ctx, "body"), "id"))
           => "IntentIdMismatch" \in Kinds(result.errors)

\* the Frame has two consecutive segments that do not chain
Discontinuous(frame) ==
  LET segments == Elems(Get(Get(frame, "body"), "segments")) IN
  \E i \in 1..(Len(segments) - 1) :
    Get(segments[i], "to_pubkey") # Get(segments[i + 1], "from_pubkey")

\* C10 (as claimed): verifyFrame rejects a Frame in which some segment's
\* to_pubkey differs from the next segment's from_pubkey, with a
\* path-discontinuity error.
C10_PathContinuity ==
  (Done("verifyFrame") /\ PastStructure /\ Discontinuous(call.obj))
  => (~result.valid /\ "PathDiscontinuity" \in Kinds(result.errors))

\* the energies of the segments, summed
RECURSIVE SumEnergy(_)
SumEnergy(segments) ==
  IF Len(segments) = 0 THEN 0
  ELSE Get(segments[1], "energy_j_partial").n + SumEnergy(Tail(segments))

\* the Frame's segments carry more energy than the parent Intent allows
ExceedsMaxEnergy(frame, intent) ==
  /\ Get(Get(intent, "body"), "max_energy_j").t = "number"
  /\ SumEnergy(Elems(Get(Get(frame, "body"), "segments")))
       > Get(Get(intent, "body"), "max_energy_j").n

\* C11 (as claimed): verifyFrame, given the parent Intent, rejects a Frame
\* whose segment energies sum to more than the Intent's max_energy, with an
\* energy-conservation error.
C11_EnergyBound ==
  (Done("verifyFrame") /\ PastStructure /\ ExceedsMaxEnergy(call.obj, call.ctx))
  => (~result.valid /\ "EnergyConservationViolation" \in Kinds(result.errors))

\* ---- claims about sessions

\* the calls made so far with their results, the last one included
Calls == IF pc = "done" THEN Append(seen, [call |-> call, result |-> result]) ELSE seen

\* the errors are none, or the ID mismatch alone: the object passes every
\* check but the one of its id
OnlyIdMismatch(r) == ~r.thrown /\ Kinds(r.errors) \subseteq {"IdMismatch"}

SameWindow(a, b) ==
  /\ Get(Get(a, "body"), "intent_id") = Get(Get(b, "body"), "intent_id")
  /\ Get(Get(a, "body"), "window_id") = Get(Get(b, "body"), "window_id")

Isolated(c) ==
  CASE c.op = "verifySigset" ->
         LET r == verifySigset(c.obj, c.message, c.auth)
         IN [thrown |-> r.thrown, valid |-> r.valid, validCount |-> r.validCount,
             errors |-> r.errors, warnings |-> <<>>]
    [] c.op = "verifyIntent" -> Result(verifyIntent(c.obj, c.now), 0)
    [] c.op = "verifyFrame" -> Result(verifyFrame(c.obj, c.ctx), 0)
    [] c.op = "verifyCollapse" -> Result(verifyCollapse(c.obj, c.ctx), 0)
    [] OTHER -> NoResult

SameArguments(c, d) ==
  /\ c.op = d.op /\ c.obj = d.obj /\ c.ctx = d.ctx
  /\ c.auth = d.auth /\ c.message = d.message

C14_TimeIndependent ==
  (Done("verifyIntent") /\ PastStructure /\ CallSigset # Undef)
  => \A now \in Instants :
       /\ expiryWarnings(CallPolicy, now) = expiryWarnings(CallPolicy, call.now)
       /\ LET r == verifyIntent(call.obj, now)
          IN /\ r.valid = result.valid
             /\ r.errors = result.errors
             /\ r.warnings = result.warnings

\* what the returned result alone shows of the time of the call
C14_SameResult ==
  Done("verifyIntent")
  => \A now \in Instants : Result(verifyIntent(call.obj, now), 0) = result

WellFormedFrame(frame) ==
  LET body == Get(frame, "body") IN
  /\ Get(frame, "object_type") = JStr("frame")
  /\ ~Falsy(body)
  /\ ~Falsy(Get(body, "id"))
  /\ ~Falsy(Get(body, "intent_id"))
  /\ Get(body, "sequence").t = "number"
  /\ ~Falsy(Get(body, "executor"))
  /\ ~Falsy(Get(frame, "signature"))

\* C16 (as claimed): verifyFrame returns invalid whenever the signature does
\* not verify over the canonical body, with the invalid-signature error, or
\* its pubkey is not the executor (in any letter case), with the error
\* naming the two.
C16_ExecutorSignature ==
  (pc = "done" /\ call.op = "verifyFrame" /\ WellFormedFrame(call.obj))
  => LET signature == Get(call.obj, "signature")
         pubkey == Get(signature, "pubkey").s
         executor == Get(CallBody, "executor").s
     IN /\ ~Verifies(<<signature>>, toCanonical(CallBody), 1)
           => (/\ ~result.thrown
               /\ ~result.valid
               /\ "InvalidExecutorSignature" \in Kinds(result.errors))
        /\ toLowerCase(pubkey) # toLowerCase(executor)
           => (/\ ~result.thrown
               /\ ~result.valid
               /\ Has(result.errors, Err("SignerNotExecutor", 0, 0, pubkey, executor)))

\* what holds of the calls that return
C16_WhenReturned ==
  (Done("verifyFrame") /\ WellFormedFrame(call.obj) /\ ~result.thrown)
  => LET signature == Get(call.obj, "signature")
     IN /\ ~Verifies(<<signature>>, toCanonical(CallBody), 1)
           => "InvalidExecutorSignature" \in Kinds(result.errors)
        /\ toLowerCase(Get(signature, "pubkey").s) # toLowerCase(Get(CallBody, "executor").s)
           => "SignerNotExecutor" \in Kinds(result.errors)
        /\ ~result.valid

\* the Intent's policy.expires_at is before now
Expired(intent, now) ==
  LET expiresAt == Get(Get(Get(intent, "body"), "policy"), "expires_at")
  IN expiresAt.t = "string" /\ dateBefore(expiresAt.s, now)

\* C17 (as claimed): verifyFrame, given a parent Intent that has expired,
\* rejects the Frame with an expired-reference error.
C17_ExpiryTerminal ==
  (Done("verifyFrame") /\ PastStructure /\ Get(call.obj, "signature") # Undef
   /\ Expired(call.ctx, call.now))
  => (~result.valid /\ "ExpiredReference" \in Kinds(result.errors))

\* the highest sequence among the Frames of intentId in calls
HighestSeen(calls, intentId) ==
  LET seqs == {Get(Get(calls[i].call.obj, "body"), "sequence").n :
                 i \in {k \in 1..Len(calls) :
                          /\ calls[k].call.op = "verifyFrame"
                          /\ Get(Get(calls[k].call.obj, "body"), "intent_id") = intentId}}
  IN IF seqs = {} THEN 0 ELSE CHOOSE n \in seqs : \A m \in seqs : m <= n

Structural(e) == e.kind \in {"InvalidObjectType", "MissingBody", "Missing"}

\* C19 (as claimed): when verifyIntent, verifyFrame or verifyCollapse reports
\* a structural error (wrong object_type, a missing body, id, version,
\* policy, intent_id, sequence, executor, frame_ids, sigset or signature),
\* the result is invalid and holds structural errors only.
C19_StructuralFatal ==
  (pc = "done" /\ call.op \in {"verifyIntent", "verifyFrame", "verifyCollapse"}
   /\ \E i \in 1..Len(result.errors) : Structural(result.errors[i]))
  => (/\ ~result.valid
      /\ \A i \in 1..Len(result.errors) : Structural(result.errors[i]))

\* the same for the fields checked before the id is
C19_BodyFieldsFatal ==
  (pc = "done" /\ call.op \in {"verifyIntent", "verifyFrame", "verifyCollapse"}
   /\ \E i \in 1..Len(result.errors) :
        /\ Structural(result.errors[i])
        /\ result.errors[i].a \notin {"sigset", "signature"})
  => (/\ ~result.valid
      /\ \A i \in 1..Len(result.errors) : Structural(result.errors[i]))

C20_ForeignFramesRejected ==
  (Done("verifyCollapse") /\ PastStructure /\ CallSigset # Undef
   /\ call.ctx.t = "array")
  => LET supplied == Elems(call.ctx)
     IN \A i \in 1..Len(supplied) :
          Get(Get(supplied[i], "body"), "intent_id") # Get(CallBody, "intent_id")
          => (/\ ~result.valid
              /\ \E j \in 1..Len(result.errors) :
                   /\ result.errors[j].kind = "FrameIntentMismatch"
                   /\ result.errors[j].a = Get(Get(supplied[i], "body"), "id").s)

\* C23: every result that verify, verifyIntent, verifyFrame, verifyCollapse
\* or verifySingleSignature returns has valid = true exactly when its errors
\* are empty.
C23_ValidIffNoErrors ==
  (/\ pc = "done"
   /\ call.op \in {"verify(obj)", "verify", "verifyIntent", "verifyFrame",
                   "verifyCollapse", "verifySingleSignature"}
   /\ ~result.thrown)
  => (result.valid <=> Len(result.errors) = 0)

\* C23 witness: verifySingleSignature returned valid, with no error, for a
\* signature whose pubkey is spelled in upper case.
C23_Witness ==
  /\ Done("verifySingleSignature")
  /\ ~result.thrown
  /\ result.valid
  /\ result.errors = <<>>
  /\ Get(call.obj, "pubkey") = JStr("K1")

\* no entry of sigs verifies over message
NoneVerifies(sigs, message) == \A i \in 1..Len(sigs) : ~Verifies(sigs, message, i)

C24_NeverValid ==
  (/\ pc = "done"
   /\ call.op \in {"verifyIntent", "verifyCollapse"}
   /\ PastStructure
   /\ CallSigset # Undef
   /\ NoneVerifies(BodySigs, toCanonical(CallBody)))
  => ~result.valid

\* C25: for an Intent whose policy.authorized_signers is absent or empty,
\* verifyIntent gives verifySigset an empty authorized set: verifySigset
\* reports every signature as not authorized and counts none, and with
\* sigset.threshold >= 1 the Intent is invalid, its errors naming every signer
\* as not authorized and the threshold as not met by 0 signatures.
C25_EmptyAuthorizedSet ==
  (/\ Done("verifyIntent")
   /\ PastStructure
   /\ CallSigset # Undef
   /\ Get(CallPolicy, "authorized_signers") \in {Undef, AuthorizedSigners(<<>>)})
  => LET r == verifySigset(CallSigset, toCanonical(CallBody),
                           Auth(authorizedSet(CallPolicy)))
         named(errors) ==
           \A i \in 1..Len(BodySigs) :
             ~Falsy(BodySigs[i])
             => Has(errors, Err("NotAuthorized", i - 1, 0, Get(BodySigs[i], "pubkey").s, ""))
     IN /\ ~r.thrown
        /\ r.validCount = 0
        /\ named(r.errors)
        /\ (BodyThreshold.t = "number" /\ BodyThreshold.n >= 1)
           => /\ ~result.valid
              /\ named(result.errors)
              /\ Has(result.errors, Err("ThresholdNotMet", 0, BodyThreshold.n, "", ""))

\* C25 witness: an Intent with an empty authorized_signers list, threshold 1
\* and a signature by k1 that verifies was found invalid, k1 not authorized.
C25_Witness ==
  /\ Done("verifyIntent")
  /\ Get(CallPolicy, "authorized_signers") = AuthorizedSigners(<<>>)
  /\ BodyThreshold = JNum(1)
  /\ Len(BodySigs) = 1
  /\ Verifies(BodySigs, toCanonical(CallBody), 1)
  /\ ~result.valid
  /\ Has(result.errors, Err("NotAuthorized", 0, 0, "k1", ""))
  /\ Has(result.errors, Err("ThresholdNotMet", 0, 1, "", ""))

\* what verifySigset returns for the sigset of the call
CallSigResult ==
  verifySigset(CallSigset, toCanonical(CallBody),
               IF call.op = "verifyIntent" THEN Auth(authorizedSet(CallPolicy)) ELSE NoAuth)

\* The Intent or Collapse of the call carries the id its command gave it, its
\* sigset meets the threshold (and min_signers, if any) and has a signature
\* that failed besides.
ThresholdMetWithFailures ==
  /\ pc = "done"
  /\ call.op \in {"verifyIntent", "verifyCollapse"}
  /\ PastStructure
  /\ CallSigset # Undef
  /\ Get(CallBody, "id") # JStr(BOGUS_ID)
  /\ CallSigResult.valid
  /\ CallSigResult.validCount >= 1
  /\ Len(CallSigResult.errors) > 0
  /\ LET minSigners == Get(CallPolicy, "min_signers")
     IN call.op = "verifyIntent"
        => (Falsy(minSigners) \/ NumGe(CallSigResult.validCount, minSigners))

PerSignature(e) == e.kind \in {"InvalidSignature", "NotAuthorized", "ThresholdNotMet"}

\* C26 (as claimed): a sigset that meets its threshold and holds signatures
\* that failed besides yields valid = true, with no error and no warning
\* about the signatures that failed.
C26_FailuresBesideThreshold ==
  ThresholdMetWithFailures
  => /\ result.valid
     /\ result.errors = <<>>
     /\ \A i \in 1..Len(result.warnings) : ~PerSignature(result.warnings[i])

\* the part of it about what is reported of the signatures
C26_FailuresNotReported ==
  ThresholdMetWithFailures
  => /\ \A i \in 1..Len(result.errors) : ~PerSignature(result.errors[i])
     /\ \A i \in 1..Len(result.warnings) : ~PerSignature(result.warnings[i])

\* ---- claims about the collapse command

\* the frame files the command was given, in the order it read them
CallFiles == Elems(call.obj)

\* the command wrote its file
Collapsed == Done("collapse") /\ ~result.thrown /\ out # Undef

SummaryOf(file) == Get(Get(file, "body"), "summary")
FrameIdsOf(file) == Elems(Get(Get(file, "body"), "frame_ids"))

\* what the command writes when it reads the same files in the order files
Reread(files) == collapseCommand(files, call.key, call.now, call.now).file

\* no two of the files have the same sequence
DistinctSequences(files) ==
  \A i, j \in 1..Len(files) : sequenceOf(files[i]) = sequenceOf(files[j]) => i = j

\* C21 (as claimed): whatever the order in which the collapse command reads
\* the same frame files, summary.aggregated_metrics holds the same number
\* for every metric.
C21_OrderIndependentNetting ==
  Collapsed
  => \A files \in Perms(CallFiles) :
       SameContent(Get(SummaryOf(Reread(files)), "aggregated_metrics"),
                   Get(SummaryOf(out), "aggregated_metrics"))

\* the same for frames that all differ in sequence
C21_WhenSequencesDiffer ==
  (Collapsed /\ DistinctSequences(CallFiles))
  => \A files \in Perms(CallFiles) :
       SameContent(Get(SummaryOf(Reread(files)), "aggregated_metrics"),
                   Get(SummaryOf(out), "aggregated_metrics"))

\* ids lists each of the files once, in non-decreasing order of sequence
ListsOnceInOrder(ids, files) ==
  /\ Len(ids) = Len(files)
  /\ \E f \in [1..Len(ids) -> 1..Len(files)] :
       /\ \A i, j \in 1..Len(ids) : f[i] = f[j] => i = j
       /\ \A i \in 1..Len(ids) : ids[i] = Get(Get(files[f[i]], "body"), "id")
       /\ \A i \in 1..(Len(ids) - 1) : sequenceOf(files[f[i]]) <= sequenceOf(files[f[i + 1]])

\* C29: the collapse command writes a Collapse only when all frames it read
\* have the same intent_id, and otherwise fails and writes nothing; the
\* body written has that intent_id, frame_ids that list each frame read
\* once in non-decreasing order of sequence, and summary.frame_count equal to
\* the number of frame_ids.
C29_CollapseOutput ==
  Done("collapse")
  => /\ (out # Undef)
        => /\ ~result.thrown
           /\ \A i \in 1..Len(CallFiles) :
                /\ isFrame(CallFiles[i])
                /\ Get(Get(CallFiles[i], "body"), "intent_id")
                     = Get(Get(out, "body"), "intent_id")
           /\ ListsOnceInOrder(FrameIdsOf(out), CallFiles)
           /\ Get(SummaryOf(out), "frame_count") = JNum(Len(FrameIdsOf(out)))
     /\ (\E i, j \in 1..Len(CallFiles) :
           Get(Get(CallFiles[i], "body"), "intent_id")
             # Get(Get(CallFiles[j], "body"), "intent_id"))
        => (result.thrown /\ out = Undef)

\* C29 witness: three frames of one intent were read with the one of the
\* lowest sequence last, and the Collapse written lists it first.
C29_Witness ==
  /\ Collapsed
  /\ Len(CallFiles) = 3
  /\ sequenceOf(CallFiles[3]) < sequenceOf(CallFiles[1])
  /\ FrameIdsOf(out) = <<JStr("F1"), JStr("F2"), JStr("F3")>>
  /\ Get(SummaryOf(out), "frame_count") = JNum(3)

\* the final_status the claim describes: 'failed' iff the frame with the
\* highest sequence failed, 'partial' iff only other frames failed
StatusBySequence(files) ==
  LET failed(f) == Get(Get(f, "body"), "status") = JStr("failed")
      last(i) == \A j \in 1..Len(files) : sequenceOf(files[j]) <= sequenceOf(files[i])
  IN IF \E i \in 1..Len(files) : last(i) /\ failed(files[i]) THEN "failed"
     ELSE IF \E i \in 1..Len(files) : failed(files[i]) THEN "partial"
     ELSE "success"

\* C30 (as claimed): whatever the order in which the collapse command reads
\* the same frame files, the body written has the same frame_ids and the
\* same summary.final_status, which is 'failed' iff the last frame by
\* sequence failed, 'partial' iff some other frame failed, else 'success'.
C30_OrderIndependentOutput ==
  Collapsed
  => /\ \A files \in Perms(CallFiles) :
          /\ FrameIdsOf(Reread(files)) = FrameIdsOf(out)
          /\ Get(SummaryOf(Reread(files)), "final_status")
               = Get(SummaryOf(out), "final_status")
     /\ Get(SummaryOf(out), "final_status") = JStr(StatusBySequence(CallFiles))

\* the same for frames that all differ in sequence
C30_WhenSequencesDiffer ==
  (Collapsed /\ DistinctSequences(CallFiles))
  => /\ \A files \in Perms(CallFiles) :
          /\ FrameIdsOf(Reread(files)) = FrameIdsOf(out)
          /\ Get(SummaryOf(Reread(files)), "final_status")
               = Get(SummaryOf(out), "final_status")
     /\ Get(SummaryOf(out), "final_status") = JStr(StatusBySequence(CallFiles))


\* ---- conformance run

\* the vectors loaded and the entries of the results made so far
Loaded == Elems(call.obj)
Ran(i) == seen[i].result
InConformance == call.op = "conformance-check"

\* s contains part, letter case ignored
ContainsIgnoringCase(s, part) == includes(toUpperCase(s), toUpperCase(part))

\* what verify says of the object of a vector that is an object
VerdictOf(vector) ==
  LET wrapped == wrapObject(Get(vector, "object"), Get(vector, "object_type")) IN
  IF wrapped.thrown THEN Thrown ELSE verify(wrapped.value, call.now)

\* with that verdict the vector is to pass: verify returned, its verdict is
\* the expected one and an expected error, if one is named, is in some error
\* reported
PassesWith(vector, verdict) ==
  LET expected == Get(vector, "expected_result")
      expectedError == Get(vector, "expected_error")
  IN /\ ~verdict.thrown
     /\ verdict.valid <=> expected = JStr("valid")
     /\ (expected = JStr("invalid") /\ expectedError.t = "string")
          => \E i \in 1..Len(verdict.errors) :
               ContainsIgnoringCase(Text(verdict.errors[i]), expectedError.s)

ShouldPass(vector) == PassesWith(vector, VerdictOf(vector))

\* C22: runVector marks a vector passed iff verify's verdict equals
\* expected_result and, when the vector is expected invalid with a non-null
\* expected_error, some reported error contains expected_error, letter case
\* ignored; a vector expected valid passes iff verify returns valid.
C22_ConformanceVerdict ==
  InConformance =>
    \A i \in 1..Len(seen) : Ran(i).passed <=> ShouldPass(Loaded[i])

\* a vector whose expected error differs from the reported one in letter
\* case only has run and passed
C22_Witness ==
  /\ InConformance
  /\ \E i \in 1..Len(seen) :
       /\ Get(Loaded[i], "expected_error") = JStr("id MISMATCH")
       /\ Ran(i).passed
       /\ \E j \in 1..Len(Ran(i).errors) : includes(Ran(i).errors[j], "ID mismatch")


\* the run has come to its end with the report out
Reported == InConformance /\ pc = "done" /\ ~result.thrown

\* every vector loaded has its result, a vector whose verification threw is
\* recorded as failed with the text of the exception, and the report counts
\* them all
RunIsComplete ==
  /\ ~result.thrown
  /\ \A i \in 1..Len(seen) :
       VerdictOf(Loaded[i]).thrown =>
         /\ ~Ran(i).passed
         /\ \/ includes(Ran(i).error, UnsupportedSuiteError)
            \/ includes(Ran(i).error, "TypeError")
  /\ pc = "done" =>
       /\ Len(seen) = Len(Loaded)
       /\ Get(out, "total") = JNum(Len(Loaded))
       /\ Get(out, "passed").n + Get(out, "failed").n = Get(out, "total").n
       /\ Len(Elems(Get(out, "results"))) = Len(Loaded)

\* C27: the conformance run never aborts on a bad vector: a vector whose
\* verification throws is recorded as failed with the exception text, the
\* remaining vectors are still run, and the report has total = the number
\* of loaded vectors and passed + failed = total.
C27_RunNeverAborts == InConformance => RunIsComplete

\* the same, of runs whose vector files all hold an object
C27_WhenVectorsAreObjects ==
  (InConformance /\ \A i \in 1..Len(Loaded) : Loaded[i].t = "object") => RunIsComplete

\* a run that went on past a vector whose verification threw
C27_RecordedAndWentOn ==
  /\ Reported
  /\ Len(seen) = 2
  /\ VerdictOf(Loaded[1]).thrown
  /\ Ran(2).passed


\* C28: the two conformance runners agree: for every test vector the
\* standalone runner and the kernel's runVector give the same pass/fail
\* verdict.
C28_RunnersAgree ==
  (pc = "done" /\ call.op = "runner" /\ ~result.thrown) =>
    \A i \in 1..Len(seen) :
      LET kernel == runVector(Loaded[i], call.now) IN
      ~kernel.aborted /\ kernel.passed = Ran(i).passed

\* the two agree on some vector, and on some vector that passes
C28_SometimesAgree ==
  /\ pc = "done" /\ call.op = "runner" /\ ~result.thrown
  /\ Len(seen) = 2
  /\ \A i \in 1..2 : runVector(Loaded[i], call.now).passed = Ran(i).passed
  /\ Ran(1).passed /\ ~Ran(2).passed

====
